---------------------------- MODULE Spec2Model ----------------------------
(***************************************************************************)
(* A model of the bcc B-to-C compiler (frankischilling/bcc).               *)
(*                                                                         *)
(* The compiler is a batch pipeline; each part of it that a property is    *)
(* about is modelled as its own state machine over its own group of        *)
(* variables, with its own specification:                                  *)
(*                                                                         *)
(*   SpecSwitch  parser.c parse_switch/parse_case/parse_default,           *)
(*               emitter.c collect_cases/emit_switch, and the execution    *)
(*               of the dispatch table that emit_switch writes             *)
(*   SpecSem     parser.c parse_program_ast (the Top items it builds) and  *)
(*               sem.c sem_check_program: pre-pass, function bodies,       *)
(*               post-pass                                                 *)
(*   SpecFold    the expression parser (the Expr nodes it builds) and      *)
(*               emitter.c try_eval_const_expr                             *)
(*   SpecExtern  one external definition from parser.c                     *)
(*               parse_extern_var_def through sem_check_program to the     *)
(*               storage and the initialization emit_program_c writes      *)
(*                                                                         *)
(* While one machine runs, the variables of the others keep their initial  *)
(* values.                                                                 *)
(***************************************************************************)
EXTENDS Integers, Sequences, FiniteSets, TLC

VARIABLES
    \* ---- switch lowering (parser.c, emitter.c) ----
    switch_depth,   \* Parser.switch_depth
    swPhase,        \* position: "idle", "body", "parsed", "emitted", "run", "done"
    swBody,         \* the ST_CASE nodes of the switch body, in source order
    swOrigin,       \* history: which parser function made each node
    g_switch_id,    \* emitter.c g_switch_id
    swDispatch,     \* the dispatch table emit_switch wrote
    swX,            \* __sw, the discriminant of the run
    swI,            \* the dispatch entry the run is at
    swTarget        \* the label the dispatch jumped to (kind "none" before it did)

swVars == <<switch_depth, swPhase, swBody, swOrigin, g_switch_id, swDispatch,
            swX, swI, swTarget>>

VARIABLES
    \* ---- semantic analysis (sem.c) ----
    tops,             \* Program.tops
    tops0,            \* history: Program.tops as the parser left it
    semPc,            \* position in sem_check_program
    semI,             \* the loop index i over prog->tops
    scopes,           \* the Scope chain, global scope first, st->current last
    extern_names,     \* SemState.extern_names
    function_names,   \* SemState.function_names
    implicit_statics, \* SemState.implicit_statics
    semStatus,        \* "running", "ok", or how the process exited
    cur,              \* the AST node of the function body visited last
    nNodes,           \* nodes of the function bodies visited so far
    unresolved        \* history: names of the Var nodes scope_find did not find

semVars == <<tops, tops0, semPc, semI, scopes, extern_names, function_names,
             implicit_statics, semStatus, cur, nNodes, unresolved>>

VARIABLES
    \* ---- constant folding (parser.c, emitter.c) ----
    foldPc,      \* position: "parse", "done"
    foldStack,   \* the Expr nodes the parser has built and not yet used
    foldOps,     \* operator nodes built so far
    foldRet,     \* what try_eval_const_expr returned
    foldOut      \* *out after the call

foldVars == <<foldPc, foldStack, foldOps, foldRet, foldOut>>

VARIABLES
    \* ---- storage of external definitions (parser.c, sem.c, emitter.c) ----
    extPc,       \* position: "parse", "sem", "emit", "init", "done"
    extItem,     \* the ExternItem of the definition
    extStatus,   \* "running", "ok", or how the process exited
    extArray,    \* the backing array the first pass of emit_program_c declared
    extWrites,   \* the array indices that the emitted __b_init assigns
    extCursor,   \* what emit_edge_list_init returned
    extRegions   \* history: the subvector each nested list was given

extVars == <<extPc, extItem, extStatus, extArray, extWrites, extCursor,
             extRegions>>

VARIABLES
    \* ---- name mangling (emitter.c) ----
    name_map,    \* emitter.c name_map: the NameEntry records, oldest first
    mnStatus,    \* "running", or how the process exited
    mnOut,       \* the identifier written last into the emitted C
    mnFirst      \* history: the identifier each B name got at its first lookup

mnVars == <<name_map, mnStatus, mnOut, mnFirst>>

VARIABLES
    \* ---- string pool (lexer.c, parser.c, emitter.c) ----
    strPc,         \* position: "parse", "pool", "refs", "done"
    strNodes,      \* the EX_STR nodes of the program, in source order
    string_pool,   \* emitter.c string_pool: the StringEntry strings, by id
    strArrays,     \* the __b_str<i> arrays emit_string_pool wrote
    strRefs        \* the id in the B_PTR(__b_str<id>) written for each node

strVars == <<strPc, strNodes, string_pool, strArrays, strRefs>>

VARIABLES
    \* ---- emission of ++, -- and assignments (emitter.c) ----
    rmwPc,              \* position: "parse", "emit", "run", "done"
    rmwStatus,          \* "running", or how the process exited
    rmwTried,           \* history: the operator and the operand it met
    rmwExpr,            \* the EX_UNARY, EX_POST or EX_ASSIGN node
    current_word_bits,  \* emitter.c current_word_bits (0 is the host width)
    rmwOut,             \* what emit_expr wrote for the node
    rmwEvals            \* how often one execution evaluates the target

rmwVars == <<rmwPc, rmwStatus, rmwTried, rmwExpr, current_word_bits, rmwOut,
             rmwEvals>>

VARIABLES
    \* ---- statement nesting in the parser (parser.c) ----
    nestStack,    \* the statements being parsed, outermost first
    nestDepth,    \* Parser.switch_depth of this parser
    nestDefs,     \* top-level definitions parsed so far
    nestStatus,   \* "running", or how the process exited
    nestLast      \* history: the last `case` or `default` and what came of it

nestVars == <<nestStack, nestDepth, nestDefs, nestStatus, nestLast>>

VARIABLES
    \* ---- lexer (lexer.c) ----
    lxStatus,   \* "start", "running", "eof", or the error code of the fatal exit
    lxSrc,      \* Lexer.src, the bytes of the source file (Lexer.len of them)
    lxL,        \* Lexer.i, Lexer.line, Lexer.col
    lxTok       \* the token the last call of lx_next returned

lxVars == <<lxStatus, lxSrc, lxL, lxTok>>

VARIABLES
    \* ---- arena (arena.c) ----
    arChunks,   \* the ArenaChunk of every address malloc has returned
    arFirst,    \* Arena.first_chunk (0 is NULL)
    arCurrent,  \* Arena.current_chunk (0 is NULL)
    arMark,     \* the ArenaMark the caller holds
    arAtMark,   \* the arena as it was when the mark was taken
    arAllocs,   \* the number of arena_alloc calls so far
    arLast      \* the last arena call

arVars == <<arChunks, arFirst, arCurrent, arMark, arAtMark, arAllocs, arLast>>

VARIABLES
    \* ---- driver (main.c) ----
    drPc,       \* "start", "compile" (the loop over the inputs), or "exited"
    drOptions,  \* whether the options on the command line are well formed
    drKeep,     \* "none", "keep-c" or "emit-c"
    drInputs,   \* in_paths: for each input file, what compiling it runs into
    drCfiles,   \* cfiles: the inputs whose C file has been written
    drDisk,     \* the C files the driver created that exist on disk
    drGcc,      \* how the downstream C compiler ended, once it has run
    drExit      \* the exit status of the driver (-1 while it runs)

drVars == <<drPc, drOptions, drKeep, drInputs, drCfiles, drDisk, drGcc,
           drExit>>

VARIABLES
    \* ---- switch bodies (emitter.c) ----
    stPc,        \* "parse", "emit", or "emitted"
    stBody,      \* the ST_SWITCH statement to emit
    stSwitchId,  \* g_switch_id as this machine sees it
    stOut,       \* the labels and jumps written for the statement, in order
    stSwitches,  \* for each emit_switch call of the statement: sid and cases
    stUsed,      \* the ids given to the switches of earlier statements
    stCount      \* the number of statements emitted so far

stVars == <<stPc, stBody, stSwitchId, stOut, stSwitches, stUsed, stCount>>

VARIABLES
    \* ---- one-token lookahead of the parser (parser.c, lexer.c) ----
    pkStatus,              \* "start", "running", "eof", or the code of the fatal exit
    pkSrc,                 \* Parser.L.src
    pkL,                   \* Parser.L: i, line, col
    pkCur,                 \* Parser.cur, with its lexeme
    g_compilation_arena,   \* util.c g_compilation_arena: "NULL" or the arena
    pkArena,               \* the sizes of the allocations made in the arena
    pkHeap,                \* the number of lexemes malloc'd and not freed
    pkLast                 \* history: the last peek_next_kind that returned

pkVars == <<pkStatus, pkSrc, pkL, pkCur, g_compilation_arena, pkArena, pkHeap,
            pkLast>>

VARIABLES
    \* ---- arena marks held by a caller (arena.c) ----
    mkStatus,    \* "running", or "undefined" after a freed chunk was used
    mkChunks,    \* the ArenaChunk of every address malloc has returned
    mkFirst,     \* Arena.first_chunk (0 is NULL)
    mkCurrent,   \* Arena.current_chunk (0 is NULL)
    mkMarks,     \* the ArenaMark values arena_mark has returned, oldest first
    mkAllocs,    \* calls of arena_alloc so far
    mkTouched    \* history: the freed chunks the last arena_rewind used

mkVars == <<mkStatus, mkChunks, mkFirst, mkCurrent, mkMarks, mkAllocs, mkTouched>>

VARIABLES
    \* ---- compound assignment at run time (emitter.c, libb.c) ----
    wdPc,        \* position: "start", "helper", "binary", "done"
    wdOp,        \* the compound assignment operator
    wdBits,      \* WORD_BITS of the emitted C (0 is the host width)
    wdLib,       \* where b_<op>_assign comes from: "inline" or "libb"
    wdX,         \* the word the target holds
    wdV,         \* the value of the right operand
    wdHelper,    \* what b_<op>_assign(&x, v) stored
    wdBinary     \* the value of the lowering of `x <op> v`

wdVars == <<wdPc, wdOp, wdBits, wdLib, wdX, wdV, wdHelper, wdBinary>>

VARIABLES
    \* ---- C strings for the arguments of one call (libb.c, emitter.c) ----
    csPc,        \* position: "idle", "args"
    csArgs,      \* the B strings of the wrapped arguments of the call, in order
    csOrder,     \* the order in which the C compiler evaluates the arguments
    cstrSlots,   \* __b_cstr slots[4]: the buffer of each slot and its text
    cstrCaps,    \* __b_cstr caps[4]
    cstrNext,    \* __b_cstr next
    csPtrs,      \* the pointer __b_cstr returned for each argument so far
    csHeap,      \* the number of buffers realloc has handed out
    csCalls      \* calls made so far

csVars == <<csPc, csArgs, csOrder, cstrSlots, cstrCaps, cstrNext, csPtrs, csHeap,
            csCalls>>

vars == <<swVars, semVars, foldVars, extVars, mnVars, strVars, rmwVars,
          nestVars, lxVars, arVars, drVars, stVars, pkVars, mkVars, wdVars,
          csVars>>

\* What each machine leaves alone.
notSw == <<semVars, foldVars, extVars, mnVars, strVars, rmwVars, nestVars,
           lxVars, arVars, drVars, stVars, pkVars, mkVars, wdVars, csVars>>
notSem == <<swVars, foldVars, extVars, mnVars, strVars, rmwVars, nestVars,
            lxVars, arVars, drVars, stVars, pkVars, mkVars, wdVars, csVars>>
notFold == <<swVars, semVars, extVars, mnVars, strVars, rmwVars, nestVars,
             lxVars, arVars, drVars, stVars, pkVars, mkVars, wdVars, csVars>>
notExt == <<swVars, semVars, foldVars, mnVars, strVars, rmwVars, nestVars,
            lxVars, arVars, drVars, stVars, pkVars, mkVars, wdVars, csVars>>
notMn == <<swVars, semVars, foldVars, extVars, strVars, rmwVars, nestVars,
           lxVars, arVars, drVars, stVars, pkVars, mkVars, wdVars, csVars>>
notStr == <<swVars, semVars, foldVars, extVars, mnVars, rmwVars, nestVars,
            lxVars, arVars, drVars, stVars, pkVars, mkVars, wdVars, csVars>>
notRmw == <<swVars, semVars, foldVars, extVars, mnVars, strVars, nestVars,
            lxVars, arVars, drVars, stVars, pkVars, mkVars, wdVars, csVars>>
notNest == <<swVars, semVars, foldVars, extVars, mnVars, strVars, rmwVars,
             lxVars, arVars, drVars, stVars, pkVars, mkVars, wdVars, csVars>>
notLx == <<swVars, semVars, foldVars, extVars, mnVars, strVars, rmwVars,
           nestVars, arVars, drVars, stVars, pkVars, mkVars, wdVars, csVars>>
notAr == <<swVars, semVars, foldVars, extVars, mnVars, strVars, rmwVars,
           nestVars, lxVars, drVars, stVars, pkVars, mkVars, wdVars, csVars>>
notDr == <<swVars, semVars, foldVars, extVars, mnVars, strVars, rmwVars,
           nestVars, lxVars, arVars, stVars, pkVars, mkVars, wdVars, csVars>>
notSt == <<swVars, semVars, foldVars, extVars, mnVars, strVars, rmwVars,
           nestVars, lxVars, arVars, drVars, pkVars, mkVars, wdVars, csVars>>
notPk == <<swVars, semVars, foldVars, extVars, mnVars, strVars, rmwVars,
           nestVars, lxVars, arVars, drVars, stVars, mkVars, wdVars, csVars>>
notMk == <<swVars, semVars, foldVars, extVars, mnVars, strVars, rmwVars,
           nestVars, lxVars, arVars, drVars, stVars, pkVars, wdVars, csVars>>
notWd == <<swVars, semVars, foldVars, extVars, mnVars, strVars, rmwVars,
           nestVars, lxVars, arVars, drVars, stVars, pkVars, mkVars, csVars>>
notCs == <<swVars, semVars, foldVars, extVars, mnVars, strVars, rmwVars,
           nestVars, lxVars, arVars, drVars, stVars, pkVars, mkVars, wdVars>>

-----------------------------------------------------------------------------
(***************************************************************************)
(* Bounds.                                                                 *)
(***************************************************************************)
MaxCases == 3
\* Top items of one source file.
MaxTops == 2
\* AST nodes that the semantic pass visits in the function bodies of one
\* source file.
MaxNodes == 3
\* Operator nodes of one expression.
MaxOps == 2
\* Init nodes below the root list of one initializer.
MaxInitNodes == 4
\* String literals of one source file, and bytes of one literal.
MaxStrings == 2
MaxStrLen == 4
\* Statement parsers of one function that have not returned, and top-level
\* definitions of one source file.
MaxNest == 4
MaxDefs == 2
\* Bytes of one source file given to the lexer.
MaxSrcLen == 4

\* Chunks the arena may ask of malloc, and calls of arena_alloc.
MaxChunks == 3

MaxAllocs == 4

\* Input files on the driver's command line.
MaxInputs == 3

\* Nodes of one switch statement, and switch statements emitted in a row.
MaxStmtNodes == 5

MaxSwitches == 2

\* Marks a caller of the arena holds at a time.
MaxMarks == 2

\* Wrapped arguments of one call, and calls in a row.
MaxWrapped == 5

MaxCalls == 2

\* Bytes per word of the emitted C: sizeof(intptr_t), on a 32-bit host.
W == 4

-----------------------------------------------------------------------------
(***************************************************************************)
(* Switch lowering.                                                        *)
(***************************************************************************)

\* The case constants and discriminants tried: the values of the spec's
\* scenario 4 (1, 2, 9) and the value parse_default uses as its marker.
CaseValues == {-1, 1, 2}
Discriminants == {-1, 1, 2, 9}

\* parser.c parse_case: an ST_CASE node for `case val:`.
CaseNode(val) ==
    [kind |-> "ST_CASE", relop |-> "TK_EOF", has_range |-> 0, lo |-> val, hi |-> val]

\* parser.c parse_default: an ST_CASE node with lo = hi = -1.
DefaultNode ==
    [kind |-> "ST_CASE", relop |-> "TK_EOF", has_range |-> 0, lo |-> -1, hi |-> -1]

\* emitter.c collect_cases on a block of case nodes: the nodes in source order.
CollectCases(body) == body

\* emitter.c emit_switch, the label of case i (0-based) of switch sid.
CaseLabel(sid, i) == [kind |-> "case", sid |-> sid, idx |-> i]

\* emitter.c emit_switch, the label `__bsw<sid>_end`.
EndLabel(sid) == [kind |-> "end", sid |-> sid, idx |-> 0]

\* No jump taken yet.
NoLabel == [kind |-> "none", sid |-> 0, idx |-> 0]

\* emitter.c emit_switch, the condition written for one dispatch entry.
DispatchTest(cs, x) ==
    IF cs.relop # "TK_EOF"
    THEN CASE cs.relop = "TK_LT" -> x < cs.lo
           [] cs.relop = "TK_LE" -> x <= cs.lo
           [] cs.relop = "TK_GT" -> x > cs.lo
           [] cs.relop = "TK_GE" -> x >= cs.lo
           [] OTHER -> FALSE
    ELSE IF cs.has_range # 0
    THEN x >= cs.lo /\ x <= cs.hi
    ELSE x = cs.lo

\* emitter.c emit_switch, the dispatch table: one entry per collected case.
DispatchTable(sid, cases) ==
    [i \in 1..Len(cases) |-> [node |-> cases[i], label |-> CaseLabel(sid, i - 1)]]

SwInit ==
    /\ switch_depth = 0
    /\ swPhase = "idle"
    /\ swBody = <<>>
    /\ swOrigin = <<>>
    /\ g_switch_id = 0
    /\ swDispatch = <<>>
    /\ swX = 0
    /\ swI = 0
    /\ swTarget = NoLabel

\* parser.c parse_switch, up to the body.
ParseSwitch ==
    /\ swPhase = "idle"
    /\ switch_depth' = switch_depth + 1
    /\ swPhase' = "body"
    /\ UNCHANGED <<swBody, swOrigin, g_switch_id, swDispatch, swX, swI, swTarget>>
    /\ UNCHANGED notSw

\* parser.c parse_case.
ParseCase ==
    /\ swPhase = "body"
    /\ switch_depth # 0
    /\ Len(swBody) < MaxCases
    /\ \E v \in CaseValues :
          /\ swBody' = Append(swBody, CaseNode(v))
          /\ swOrigin' = Append(swOrigin, "case")
    /\ UNCHANGED <<switch_depth, swPhase, g_switch_id, swDispatch, swX, swI, swTarget>>
    /\ UNCHANGED notSw

\* parser.c parse_default.
ParseDefault ==
    /\ swPhase = "body"
    /\ switch_depth # 0
    /\ Len(swBody) < MaxCases
    /\ swBody' = Append(swBody, DefaultNode)
    /\ swOrigin' = Append(swOrigin, "default")
    /\ UNCHANGED <<switch_depth, swPhase, g_switch_id, swDispatch, swX, swI, swTarget>>
    /\ UNCHANGED notSw

\* parser.c parse_switch, after the body.
ParseSwitchEnd ==
    /\ swPhase = "body"
    /\ switch_depth' = switch_depth - 1
    /\ swPhase' = "parsed"
    /\ UNCHANGED <<swBody, swOrigin, g_switch_id, swDispatch, swX, swI, swTarget>>
    /\ UNCHANGED notSw

\* emitter.c emit_switch.
EmitSwitch ==
    /\ swPhase = "parsed"
    /\ g_switch_id' = g_switch_id + 1
    /\ swDispatch' = DispatchTable(g_switch_id + 1, CollectCases(swBody))
    /\ swPhase' = "emitted"
    /\ UNCHANGED <<switch_depth, swBody, swOrigin, swX, swI, swTarget>>
    /\ UNCHANGED notSw

\* The emitted C: `word __sw = <expr>; goto __bsw<sid>_dispatch;`.
RunSwitch ==
    /\ swPhase = "emitted"
    /\ \E x \in Discriminants : swX' = x
    /\ swI' = 1
    /\ swPhase' = "run"
    /\ UNCHANGED <<switch_depth, swBody, swOrigin, g_switch_id, swDispatch, swTarget>>
    /\ UNCHANGED notSw

\* The emitted C: one `if (<test>) goto <label>;` of the dispatch table, or
\* the `goto __bsw<sid>_end;` that follows the last of them.
RunDispatch ==
    /\ swPhase = "run"
    /\ IF swI > Len(swDispatch)
       THEN /\ swTarget' = EndLabel(g_switch_id)
            /\ swPhase' = "done"
            /\ swI' = swI
       ELSE IF DispatchTest(swDispatch[swI].node, swX)
       THEN /\ swTarget' = swDispatch[swI].label
            /\ swPhase' = "done"
            /\ swI' = swI
       ELSE /\ swI' = swI + 1
            /\ UNCHANGED <<swTarget, swPhase>>
    /\ UNCHANGED <<switch_depth, swBody, swOrigin, g_switch_id, swDispatch, swX>>
    /\ UNCHANGED notSw

SwNext ==
    \/ ParseSwitch
    \/ ParseCase
    \/ ParseDefault
    \/ ParseSwitchEnd
    \/ EmitSwitch
    \/ RunSwitch
    \/ RunDispatch

-----------------------------------------------------------------------------
(***************************************************************************)
(* Semantic analysis.                                                      *)
(*                                                                         *)
(* The parser's Top items are built first.  A function body is not stored: *)
(* its AST nodes are chosen one at a time while sem_check_func walks it,   *)
(* in the order the walk visits them, and `cur` keeps the last one         *)
(* visited.  Only the node kinds on which sem.c reads or writes its state  *)
(* are nodes here; if, while, return, switch and the operators only pass   *)
(* the walk on to their children.                                          *)
(***************************************************************************)

\* Names used in the source files tried.
Names == {"a", "b", "f"}

\* sem.c sem_add_builtin_functions, the builtins[] table.
Builtins ==
    {"print", "putchar", "getchar", "exit", "alloc",
     "char", "lchar", "getchr", "putchr", "getstr", "putstr", "flush",
     "reread", "printf", "printn", "putnum",
     "open", "close", "read", "write", "creat", "seek", "openr", "openw",
     "fork", "wait", "execl", "execv",
     "chdir", "chmod", "chown", "link", "unlink", "stat", "fstat",
     "time", "ctime", "getuid", "setuid", "makdir", "intr",
     "system", "callf", "gtty", "stty", "argc", "argv"}

\* Callee names tried: the user names, and library names.
CalleeNames == Names \cup {"printf", "alloc", "abort", "free", "usleep"}

\* sem.c symbol_new.
Symbol(kind, name) == [kind |-> kind, name |-> name]

\* The NULL that scope_find returns.
NoSymbol == [kind |-> "NULL", name |-> ""]

\* parser.c parse_program_ast: the Top items it can build.  `init` is the
\* name of the Var node that is the initializer of an extern definition
\* (`name = v;`), "" when there is none.
Top(kind, name, params, init, implicit) ==
    [kind |-> kind, name |-> name, params |-> params, vkind |-> "EXTVAR_SCALAR",
     init |-> init, is_implicit_static |-> implicit]

TopChoices ==
    {Top("TOP_GAUTO", "a", <<>>, "", 0),
     Top("TOP_FUNC", "a", <<>>, "", 0),
     Top("TOP_FUNC", "f", <<>>, "", 0),
     Top("TOP_FUNC", "f", <<"a">>, "", 0),
     Top("TOP_FUNC", "f", <<"a", "a">>, "", 0),
     Top("TOP_EXTERN_DEF", "a", <<>>, "", 0),
     Top("TOP_EXTERN_DEF", "a", <<>>, "b", 0),
     Top("TOP_EXTERN_DECL", "a", <<>>, "", 0)}

\* The AST nodes of a function body on which sem.c acts.
Node(kind, name) == [kind |-> kind, name |-> name]

NoNode == Node("none", "")

\* A scope_find that does not walk to the parents.
scope_find_no_parents(sc, name) ==
    IF \E s \in sc[Len(sc)] : s.name = name
    THEN CHOOSE s \in sc[Len(sc)] : s.name = name
    ELSE NoSymbol

\* sem.c scope_find: the innermost symbol of that name, or NULL.
RECURSIVE ScopeFindFrom(_, _, _)
ScopeFindFrom(sc, i, name) ==
    IF i = 0 THEN NoSymbol
    ELSE IF \E s \in sc[i] : s.name = name
    THEN CHOOSE s \in sc[i] : s.name = name
    ELSE ScopeFindFrom(sc, i - 1, name)

scope_find(sc, name) == ScopeFindFrom(sc, Len(sc), name)

\* A scope_has_in_current that walks to the parents as scope_find does.
scope_has_in_chain(sc, name) == scope_find(sc, name) # NoSymbol

\* sem.c scope_has_in_current.
scope_has_in_current(sc, name) == \E s \in sc[Len(sc)] : s.name = name

\* sem.c scope_add.
scope_add(sc, sym) == [sc EXCEPT ![Len(sc)] = @ \cup {sym}]

\* sem.c sem_push_scope.
sem_push_scope(sc) == Append(sc, {})

\* sem.c sem_pop_scope.
sem_pop_scope(sc) == SubSeq(sc, 1, Len(sc) - 1)

\* sem.c is_extern_name, is_function_name, is_implicit_static.  The three
\* vectors are only ever searched, so extern_names and function_names are
\* sets; implicit_statics keeps its order for the post-pass.
is_implicit_static_never(name) == FALSE
is_extern_name(name) == name \in extern_names
is_function_name(name) == name \in function_names
is_implicit_static(name) == \E i \in 1..Len(implicit_statics) : implicit_statics[i] = name

SemInit ==
    /\ tops = <<>>
    /\ tops0 = <<>>
    /\ semPc = "parse"
    /\ semI = 0
    /\ scopes = <<>>
    /\ extern_names = {}
    /\ function_names = {}
    /\ implicit_statics = <<>>
    /\ semStatus = "running"
    /\ cur = NoNode
    /\ nNodes = 0
    /\ unresolved = {}

\* parser.c parse_program_ast, one round of its loop.
ParseTop ==
    /\ semPc = "parse"
    /\ Len(tops) < MaxTops
    /\ \E t \in TopChoices : tops' = Append(tops, t)
    /\ UNCHANGED <<tops0, semPc, semI, scopes, extern_names, function_names,
                   implicit_statics, semStatus, cur, nNodes, unresolved>>
    /\ UNCHANGED notSem

\* sem.c sem_state_new, with sem_add_builtin_functions.
SemStateNew ==
    /\ semPc = "parse"
    /\ tops0' = tops
    /\ scopes' = <<{Symbol("SYM_FUNC", b) : b \in Builtins}>>
    /\ function_names' = Builtins
    /\ extern_names' = {}
    /\ implicit_statics' = <<>>
    /\ semPc' = "prepass"
    /\ semI' = 1
    /\ UNCHANGED <<tops, semStatus, cur, nNodes, unresolved>>
    /\ UNCHANGED notSem

\* The process exits: error_at_location with a code, dief, or a crash.
SemExit(how) ==
    /\ semStatus' = how
    /\ semPc' = "exit"

\* sem.c sem_check_program, one round of the pre-pass loop.
PrePassTop ==
    /\ semPc = "prepass"
    /\ semI <= Len(tops)
    /\ LET t == tops[semI] IN
       CASE t.kind = "TOP_GAUTO" ->
              IF scope_has_in_current(scopes, t.name)
              THEN /\ SemExit("rd")
                   /\ UNCHANGED <<semI, scopes, extern_names, function_names>>
              ELSE /\ scopes' = scope_add(scopes, Symbol("SYM_VAR", t.name))
                   /\ semI' = semI + 1
                   /\ UNCHANGED <<semPc, semStatus, extern_names, function_names>>
         [] t.kind = "TOP_FUNC" ->
              /\ function_names' = function_names \cup {t.name}
              /\ IF scope_has_in_current(scopes, t.name)
                 THEN /\ SemExit("rd")
                      /\ UNCHANGED <<semI, scopes, extern_names>>
                 ELSE /\ scopes' = scope_add(scopes, Symbol("SYM_FUNC", t.name))
                      /\ semI' = semI + 1
                      /\ UNCHANGED <<semPc, semStatus, extern_names>>
         [] t.kind = "TOP_EXTERN_DEF" ->
              IF scope_has_in_current(scopes, t.name)
              THEN /\ SemExit("dief")
                   /\ UNCHANGED <<semI, scopes, extern_names, function_names>>
              ELSE /\ scopes' = scope_add(scopes, Symbol("SYM_VAR", t.name))
                   /\ semI' = semI + 1
                   /\ UNCHANGED <<semPc, semStatus, extern_names, function_names>>
         [] t.kind = "TOP_EXTERN_DECL" ->
              /\ extern_names' = extern_names \cup {t.name}
              /\ semI' = semI + 1
              /\ UNCHANGED <<semPc, semStatus, scopes, function_names>>
    /\ UNCHANGED <<tops, tops0, implicit_statics, cur, nNodes, unresolved>>
    /\ UNCHANGED notSem

\* sem.c sem_check_program: the pre-pass loop ends, the loop over the
\* function bodies starts.
PrePassEnd ==
    /\ semPc = "prepass"
    /\ semI > Len(tops)
    /\ semPc' = "bodies"
    /\ semI' = 1
    /\ UNCHANGED <<tops, tops0, scopes, extern_names, function_names,
                   implicit_statics, semStatus, cur, nNodes, unresolved>>
    /\ UNCHANGED notSem

\* sem.c sem_check_func, the parameter loop: the scope chain after it, or
\* <<>> when a parameter name is already in the parameter scope.
RECURSIVE AddParams(_, _, _)
AddParams(sc, params, i) ==
    IF i > Len(params) THEN sc
    ELSE IF scope_has_in_current(sc, params[i]) THEN <<>>
    ELSE AddParams(scope_add(sc, Symbol("SYM_VAR", params[i])), params, i + 1)

\* sem.c sem_check_program, the loop over the bodies at a Top that is not a
\* function.
BodiesSkipTop ==
    /\ semPc = "bodies"
    /\ semI <= Len(tops)
    /\ tops[semI].kind # "TOP_FUNC"
    /\ semI' = semI + 1
    /\ UNCHANGED <<tops, tops0, semPc, scopes, extern_names, function_names,
                   implicit_statics, semStatus, cur, nNodes, unresolved>>
    /\ UNCHANGED notSem

\* sem.c sem_check_func up to the first item of the body: the parameter
\* scope, the parameters, and the scope that sem_check_stmt pushes for the
\* body block.
FuncEnter ==
    /\ semPc = "bodies"
    /\ semI <= Len(tops)
    /\ tops[semI].kind = "TOP_FUNC"
    /\ LET sc == AddParams(sem_push_scope(scopes), tops[semI].params, 1) IN
       IF sc = <<>>
       THEN /\ SemExit("rd")
            /\ UNCHANGED scopes
       ELSE /\ scopes' = sem_push_scope(sc)
            /\ semPc' = "infunc"
            /\ UNCHANGED semStatus
    /\ cur' = NoNode
    /\ UNCHANGED <<tops, tops0, semI, extern_names, function_names,
                   implicit_statics, nNodes, unresolved>>
    /\ UNCHANGED notSem

\* The walk of sem_check_stmt / sem_check_expr arrives at node n of the
\* body, which becomes the node being visited.
Arrive(n) ==
    /\ semPc = "infunc"
    /\ nNodes < MaxNodes
    /\ cur' = n
    /\ nNodes' = nNodes + 1

\* sem.c sem_check_stmt, ST_BLOCK before its items.
VisitBlock ==
    /\ Arrive(Node("ST_BLOCK", ""))
    /\ scopes' = sem_push_scope(scopes)
    /\ UNCHANGED semPc
    /\ UNCHANGED <<tops, tops0, semI, extern_names, function_names,
                   implicit_statics, semStatus, unresolved>>
    /\ UNCHANGED notSem

\* sem.c sem_check_stmt, ST_BLOCK after its items.
VisitBlockEnd ==
    /\ semPc = "infunc"
    /\ Len(scopes) > 3
    /\ cur' = Node("BLOCK_END", "")
    /\ UNCHANGED nNodes
    /\ scopes' = sem_pop_scope(scopes)
    /\ UNCHANGED semPc
    /\ UNCHANGED <<tops, tops0, semI, extern_names, function_names,
                   implicit_statics, semStatus, unresolved>>
    /\ UNCHANGED notSem

\* sem.c sem_check_stmt, ST_AUTO, one DeclItem.  A size, when there is one,
\* is an EX_NUM node and is visited next.
VisitAuto ==
    /\ \E name \in Names :
       /\ Arrive(Node("ST_AUTO", name))
       /\ IF scope_has_in_current(scopes, name)
          THEN /\ SemExit("rd")
               /\ UNCHANGED scopes
          ELSE /\ scopes' = scope_add(scopes, Symbol("SYM_VAR", name))
               /\ UNCHANGED semPc
               /\ UNCHANGED semStatus
    /\ UNCHANGED <<tops, tops0, semI, extern_names, function_names,
                   implicit_statics, unresolved>>
    /\ UNCHANGED notSem

\* sem.c sem_check_stmt, ST_EXTRN, one name.
VisitExtrn ==
    /\ \E name \in Names :
       /\ Arrive(Node("ST_EXTRN", name))
       /\ extern_names' = IF ~is_extern_name(name)
                          THEN extern_names \cup {name} ELSE extern_names
       /\ UNCHANGED semPc
    /\ UNCHANGED <<tops, tops0, semI, scopes, function_names,
                   implicit_statics, semStatus, unresolved>>
    /\ UNCHANGED notSem

\* sem.c sem_check_stmt, ST_LABEL, before the labelled statement.
VisitLabel ==
    /\ \E name \in Names :
       /\ Arrive(Node("ST_LABEL", name))
       /\ IF scope_has_in_current(scopes, name)
          THEN /\ SemExit("dief")
               /\ UNCHANGED scopes
          ELSE /\ scopes' = scope_add(scopes, Symbol("SYM_LABEL", name))
               /\ UNCHANGED semPc
               /\ UNCHANGED semStatus
    /\ UNCHANGED <<tops, tops0, semI, extern_names, function_names,
                   implicit_statics, unresolved>>
    /\ UNCHANGED notSem

\* sem.c sem_check_expr, EX_VAR.
VisitVar ==
    /\ \E name \in Names :
       /\ Arrive(Node("EX_VAR", name))
       /\ LET sym == scope_find(scopes, name) IN
          /\ implicit_statics' =
                IF sym = NoSymbol /\ ~is_extern_name(name) /\ ~is_implicit_static(name)
                THEN Append(implicit_statics, name) ELSE implicit_statics
          /\ unresolved' = IF sym = NoSymbol THEN unresolved \cup {name} ELSE unresolved
       /\ UNCHANGED semPc
    /\ UNCHANGED <<tops, tops0, semI, scopes, extern_names, function_names,
                   semStatus>>
    /\ UNCHANGED notSem

\* sem.c sem_check_lvalue, EX_VAR.
VisitLvalueVar ==
    /\ \E name \in Names :
       /\ Arrive(Node("LV_VAR", name))
       /\ LET sym == scope_find(scopes, name) IN
          IF sym = NoSymbol
          THEN /\ implicit_statics' =
                     IF ~is_extern_name(name) /\ ~is_implicit_static(name)
                     THEN Append(implicit_statics, name) ELSE implicit_statics
               /\ unresolved' = unresolved \cup {name}
               /\ UNCHANGED semPc
               /\ UNCHANGED semStatus
          ELSE IF sym.kind # "SYM_VAR"
          THEN /\ SemExit("dief")
               /\ UNCHANGED <<implicit_statics, unresolved>>
          ELSE /\ UNCHANGED semPc
               /\ UNCHANGED <<implicit_statics, unresolved, semStatus>>
    /\ UNCHANGED <<tops, tops0, semI, scopes, extern_names, function_names>>
    /\ UNCHANGED notSem

\* sem.c sem_check_lvalue, a node that is no lvalue (the called base of
\* `f()[0] = 1`).
VisitLvalueOther ==
    /\ Arrive(Node("LV_OTHER", ""))
    /\ SemExit("dief")
    /\ UNCHANGED <<tops, tops0, semI, scopes, extern_names, function_names,
                   implicit_statics, unresolved>>
    /\ UNCHANGED notSem

\* sem.c sem_check_expr, EX_CALL whose callee is an EX_VAR, before the
\* arguments.
VisitCall ==
    /\ \E name \in CalleeNames :
       /\ Arrive(Node("EX_CALL", name))
       /\ LET sym == scope_find(scopes, name) IN
          IF sym = NoSymbol
          THEN IF ~is_function_name(name) /\ ~is_extern_name(name)
               THEN /\ SemExit("un")
                    /\ UNCHANGED unresolved
               ELSE /\ UNCHANGED semPc
                    /\ unresolved' = unresolved \cup {name}
                    /\ UNCHANGED semStatus
          ELSE IF sym.kind # "SYM_VAR" /\ sym.kind # "SYM_FUNC"
          THEN /\ SemExit("dief")
               /\ UNCHANGED unresolved
          ELSE /\ UNCHANGED semPc
               /\ UNCHANGED <<semStatus, unresolved>>
    /\ UNCHANGED <<tops, tops0, semI, scopes, extern_names, function_names,
                   implicit_statics>>
    /\ UNCHANGED notSem

\* sem.c sem_check_expr, EX_NUM and EX_STR: they share the EX_POST case and
\* pass e->as.post.lhs to sem_check_lvalue.  new_expr does not clear the
\* node and the parser writes only as.num / as.str, so the pointer is
\* whatever the allocation held: NULL (sem_check_lvalue returns), or not
\* (sem_check_lvalue reads through it).
LiteralOutcomes == {"null", "wild"}

VisitLiteral ==
    /\ Arrive(Node("EX_NUM", ""))
    /\ \E o \in LiteralOutcomes :
          IF o = "null"
          THEN /\ UNCHANGED semPc
               /\ UNCHANGED semStatus
          ELSE SemExit("crash")
    /\ UNCHANGED <<tops, tops0, semI, scopes, extern_names, function_names,
                   implicit_statics, unresolved>>
    /\ UNCHANGED notSem

\* sem.c sem_check_stmt, the end of the body block, and sem_check_func after
\* it: both scopes are popped, the loop goes to the next Top.
FuncExit ==
    /\ semPc = "infunc"
    /\ Len(scopes) = 3
    /\ scopes' = sem_pop_scope(sem_pop_scope(scopes))
    /\ semPc' = "bodies"
    /\ semI' = semI + 1
    /\ cur' = NoNode
    /\ UNCHANGED <<tops, tops0, extern_names, function_names,
                   implicit_statics, semStatus, nNodes, unresolved>>
    /\ UNCHANGED notSem

\* sem.c sem_check_program, the Top that the post-pass appends.
ImplicitStaticTop(name) == Top("TOP_EXTERN_DEF", name, <<>>, "", 1)

\* sem.c sem_check_program, the post-pass loop from implicit static i on.
RECURSIVE PostPass(_, _, _)
PostPass(tp, statics, i) ==
    IF i > Len(statics) THEN tp
    ELSE LET name == statics[i]
             already_declared ==
                 \E j \in 1..Len(tp) :
                    /\ tp[j].kind \in {"TOP_EXTERN_DEF", "TOP_EXTERN_DECL"}
                    /\ tp[j].name = name
         IN  PostPass(IF ~already_declared THEN Append(tp, ImplicitStaticTop(name)) ELSE tp,
                      statics, i + 1)

\* sem.c sem_check_program: the loop over the bodies ends, the post-pass
\* runs, sem_check_program returns.
SemPostPass ==
    /\ semPc = "bodies"
    /\ semI > Len(tops)
    /\ tops' = PostPass(tops, implicit_statics, 1)
    /\ semPc' = "done"
    /\ semStatus' = "ok"
    /\ UNCHANGED <<tops0, semI, scopes, extern_names, function_names,
                   implicit_statics, cur, nNodes, unresolved>>
    /\ UNCHANGED notSem

SemNext ==
    \/ ParseTop
    \/ SemStateNew
    \/ PrePassTop
    \/ PrePassEnd
    \/ BodiesSkipTop
    \/ FuncEnter
    \/ VisitBlock
    \/ VisitBlockEnd
    \/ VisitAuto
    \/ VisitExtrn
    \/ VisitLabel
    \/ VisitVar
    \/ VisitLvalueVar
    \/ VisitLvalueOther
    \/ VisitCall
    \/ VisitLiteral
    \/ FuncExit
    \/ SemPostPass

-----------------------------------------------------------------------------
(***************************************************************************)
(* Constant folding.                                                       *)
(*                                                                         *)
(* The parser builds an expression bottom-up; the operands it has built    *)
(* and not yet put under an operator are on foldStack.  The literals tried *)
(* are small enough that no sum or product of an expression of MaxOps + 1  *)
(* operators leaves the range of a 32-bit long, so the unsigned long       *)
(* arithmetic of the folder does not wrap and its negation and division    *)
(* do not overflow; 182 * 182 does not fit a 16-bit word.                  *)
(***************************************************************************)

Literals == {0, 1, 2, 182}

\* The operators try_eval_const_expr folds, and one of each kind it does not.
BinaryOps ==
    {"TK_PLUS", "TK_MINUS", "TK_STAR", "TK_SLASH", "TK_PERCENT",
     "TK_LT", "TK_LE", "TK_GT", "TK_GE", "TK_EQ", "TK_NE",
     "TK_AMP", "TK_BAR", "TK_BARBAR", "TK_LSHIFT"}

UnaryOps == {"TK_MINUS", "TK_BANG", "TK_STAR"}

\* parser.c new_expr and the fields the parser fills in for each kind.
ExprNum(n) == [kind |-> "EX_NUM", op |-> "", num |-> n, var |-> "", args |-> <<>>]
ExprVar(v) == [kind |-> "EX_VAR", op |-> "", num |-> 0, var |-> v, args |-> <<>>]
ExprUnary(op, rhs) == [kind |-> "EX_UNARY", op |-> op, num |-> 0, var |-> "", args |-> <<rhs>>]
ExprBinary(op, lhs, rhs) ==
    [kind |-> "EX_BINARY", op |-> op, num |-> 0, var |-> "", args |-> <<lhs, rhs>>]
ExprComma(lhs, rhs) ==
    [kind |-> "EX_COMMA", op |-> "", num |-> 0, var |-> "", args |-> <<lhs, rhs>>]

\* C's / and % on long: the quotient is truncated toward zero.
CDiv(a, b) ==
    LET q == (IF a < 0 THEN -a ELSE a) \div (IF b < 0 THEN -b ELSE b)
    IN  IF (a < 0) = (b < 0) THEN q ELSE -q

CMod(a, b) == a - b * CDiv(a, b)

\* C's & and | on two's complement long.
RECURSIVE BitAnd(_, _)
BitAnd(a, b) ==
    IF a = 0 \/ b = 0 THEN 0
    ELSE IF a = -1 THEN b
    ELSE IF b = -1 THEN a
    ELSE 2 * BitAnd(a \div 2, b \div 2) + (a % 2) * (b % 2)

RECURSIVE BitOr(_, _)
BitOr(a, b) ==
    IF a = 0 THEN b
    ELSE IF b = 0 THEN a
    ELSE IF a = -1 \/ b = -1 THEN -1
    ELSE 2 * BitOr(a \div 2, b \div 2) + (IF a % 2 = 1 \/ b % 2 = 1 THEN 1 ELSE 0)

\* C's value of a comparison.
CBool(p) == IF p THEN 1 ELSE 0

\* What try_eval_const_expr hands back: its return value and *out.
Folded(v) == [ret |-> 1, out |-> v]
NotFolded == [ret |-> 0, out |-> 0]

\* emitter.c try_eval_const_expr.
RECURSIVE try_eval_const_expr(_)
try_eval_const_expr(e) ==
    CASE e.kind = "EX_NUM" -> Folded(e.num)
      [] e.kind = "EX_UNARY" ->
            LET v == try_eval_const_expr(e.args[1]) IN
            IF v.ret = 0 THEN NotFolded
            ELSE CASE e.op = "TK_MINUS" -> Folded(-v.out)
                   [] e.op = "TK_BANG"  -> Folded(CBool(v.out = 0))
                   [] OTHER -> NotFolded
      [] e.kind = "EX_BINARY" ->
            LET a == try_eval_const_expr(e.args[1]) IN
            IF a.ret = 0 THEN NotFolded
            ELSE
            LET b == try_eval_const_expr(e.args[2]) IN
            IF b.ret = 0 THEN NotFolded
            ELSE CASE e.op = "TK_PLUS"    -> Folded(a.out + b.out)
                   [] e.op = "TK_MINUS"   -> Folded(a.out - b.out)
                   [] e.op = "TK_STAR"    -> Folded(a.out * b.out)
                   [] e.op = "TK_SLASH"   ->
                        IF b.out = 0 THEN NotFolded ELSE Folded(CDiv(a.out, b.out))
                   [] e.op = "TK_PERCENT" ->
                        IF b.out = 0 THEN NotFolded ELSE Folded(CMod(a.out, b.out))
                   [] e.op = "TK_LT"      -> Folded(CBool(a.out < b.out))
                   [] e.op = "TK_LE"      -> Folded(CBool(a.out <= b.out))
                   [] e.op = "TK_GT"      -> Folded(CBool(a.out > b.out))
                   [] e.op = "TK_GE"      -> Folded(CBool(a.out >= b.out))
                   [] e.op = "TK_EQ"      -> Folded(CBool(a.out = b.out))
                   [] e.op = "TK_NE"      -> Folded(CBool(a.out # b.out))
                   [] e.op = "TK_AMP"     -> Folded(BitAnd(a.out, b.out))
                   [] e.op = "TK_BAR"     -> Folded(BitOr(a.out, b.out))
                   [] e.op = "TK_BARBAR"  -> Folded(CBool(a.out # 0 \/ b.out # 0))
                   [] OTHER -> NotFolded
      [] e.kind = "EX_COMMA" ->
            LET tmp == try_eval_const_expr(e.args[1]) IN
            IF tmp.ret = 0 THEN NotFolded
            ELSE try_eval_const_expr(e.args[2])
      [] OTHER -> NotFolded

FoldInit ==
    /\ foldPc = "parse"
    /\ foldStack = <<>>
    /\ foldOps = 0
    /\ foldRet = 0
    /\ foldOut = 0

\* The operands still to be put under an operator never outnumber what the
\* operators left can take.
FoldRoom == Len(foldStack) < (MaxOps - foldOps) + 1

\* parser.c parse_primary, a number.
ParseNum ==
    /\ foldPc = "parse"
    /\ FoldRoom
    /\ \E n \in Literals : foldStack' = Append(foldStack, ExprNum(n))
    /\ UNCHANGED <<foldPc, foldOps, foldRet, foldOut>>
    /\ UNCHANGED notFold

\* parser.c parse_primary, an identifier.
ParseVar ==
    /\ foldPc = "parse"
    /\ FoldRoom
    /\ foldStack' = Append(foldStack, ExprVar("a"))
    /\ UNCHANGED <<foldPc, foldOps, foldRet, foldOut>>
    /\ UNCHANGED notFold

\* parser.c parse_unary, a prefix operator over the operand just parsed.
ParseUnary ==
    /\ foldPc = "parse"
    /\ foldOps < MaxOps
    /\ Len(foldStack) >= 1
    /\ \E op \in UnaryOps :
          foldStack' = [foldStack EXCEPT ![Len(foldStack)] = ExprUnary(op, @)]
    /\ foldOps' = foldOps + 1
    /\ UNCHANGED <<foldPc, foldRet, foldOut>>
    /\ UNCHANGED notFold

\* parser.c, a binary operator over the two operands just parsed.
ParseBinary ==
    /\ foldPc = "parse"
    /\ foldOps < MaxOps
    /\ Len(foldStack) >= 2
    /\ LET n == Len(foldStack) IN
       \E op \in BinaryOps :
          foldStack' = Append(SubSeq(foldStack, 1, n - 2),
                              ExprBinary(op, foldStack[n - 1], foldStack[n]))
    /\ foldOps' = foldOps + 1
    /\ UNCHANGED <<foldPc, foldRet, foldOut>>
    /\ UNCHANGED notFold

\* parser.c parse_expr, the comma operator over the two operands just parsed.
ParseComma ==
    /\ foldPc = "parse"
    /\ foldOps < MaxOps
    /\ Len(foldStack) >= 2
    /\ LET n == Len(foldStack) IN
       foldStack' = Append(SubSeq(foldStack, 1, n - 2),
                           ExprComma(foldStack[n - 1], foldStack[n]))
    /\ foldOps' = foldOps + 1
    /\ UNCHANGED <<foldPc, foldRet, foldOut>>
    /\ UNCHANGED notFold

\* emitter.c: `long bv = 0; try_eval_const_expr(bound, &bv)` on the
\* expression parsed.
FoldExpr ==
    /\ foldPc = "parse"
    /\ Len(foldStack) = 1
    /\ LET r == try_eval_const_expr(foldStack[1]) IN
       /\ foldRet' = r.ret
       /\ foldOut' = IF r.ret = 1 THEN r.out ELSE foldOut
    /\ foldPc' = "done"
    /\ UNCHANGED <<foldStack, foldOps>>
    /\ UNCHANGED notFold

FoldNext ==
    \/ ParseNum
    \/ ParseVar
    \/ ParseUnary
    \/ ParseBinary
    \/ ParseComma
    \/ FoldExpr

-----------------------------------------------------------------------------
(***************************************************************************)
(* Storage of external definitions.                                        *)
(***************************************************************************)

\* parser.c new_init: an INIT_EXPR holding an expression of the given kind,
\* and an INIT_LIST of elements.
InitExpr(k) == [kind |-> "INIT_EXPR", expr |-> k, list |-> <<>>]
InitList(elems) == [kind |-> "INIT_LIST", expr |-> "", list |-> elems]

\* A NULL Init pointer, a NULL Expr pointer.
NoInit == [kind |-> "NULL", expr |-> "", list |-> <<>>]
NoExpr == [kind |-> "NULL", op |-> "", num |-> 0, var |-> "", args |-> <<>>]

\* parser.c parse_init_elem / parse_init_list: the elements with n nodes,
\* and the element sequences with m nodes in all.
RECURSIVE InitElems(_), InitElemSeqs(_)
InitElems(n) ==
    IF n = 1
    THEN {InitExpr("EX_NUM"), InitExpr("EX_STR"), InitList(<<>>)}
    ELSE {InitList(f) : f \in InitElemSeqs(n - 1)}

InitElemSeqs(m) ==
    IF m = 0 THEN {<<>>}
    ELSE UNION {{<<t>> \o f : t \in InitElems(k), f \in InitElemSeqs(m - k)} : k \in 1..m}

\* parser.c parse_init_list and parse_comma_init_list: the root lists.
InitRoots == UNION {{InitList(f) : f \in InitElemSeqs(m)} : m \in 0..MaxInitNodes}

\* The bounds tried in `name[bound]`: 0, 2, -1, and a name.
BoundChoices ==
    {ExprNum(0), ExprNum(2), ExprUnary("TK_MINUS", ExprNum(1)), ExprVar("a")}

\* parser.c parse_extern_var_def: the ExternItem.
ExternItem(vkind, has_empty, bound, init) ==
    [name |-> "v", vkind |-> vkind, has_empty |-> has_empty, bound |-> bound,
     init |-> init, is_implicit_static |-> 0]

NoItem == ExternItem("NONE", 0, NoExpr, NoInit)

\* emitter.c init_list_length.
init_list_length(in) == IF in.kind # "INIT_LIST" THEN 0 ELSE Len(in.list)

\* A nested_base_len that reserves nothing for an empty list.
nested_base_len_unreserved(list) ==
    IF list.kind # "INIT_LIST" THEN 0 ELSE Len(list.list)

\* emitter.c nested_base_len.
nested_base_len(list) ==
    IF list.kind # "INIT_LIST" THEN 0
    ELSE IF Len(list.list) # 0 THEN Len(list.list) ELSE 1

\* emitter.c edge_words_total; EdgeWordsFrom is its loop from element i on.
RECURSIVE edge_words_total(_), EdgeWordsFrom(_, _)
edge_words_total(list) ==
    IF list.kind # "INIT_LIST" THEN 0
    ELSE nested_base_len(list) + EdgeWordsFrom(list, 1)

EdgeWordsFrom(list, i) ==
    IF i > Len(list.list) THEN 0
    ELSE (IF list.list[i].kind = "INIT_LIST" THEN edge_words_total(list.list[i]) ELSE 0)
         + EdgeWordsFrom(list, i + 1)

\* emitter.c edge_tail_words_top.
edge_tail_words_top(root) ==
    IF root.kind # "INIT_LIST" THEN 0 ELSE EdgeWordsFrom(root, 1)

\* A sub_cursor that starts on the first word of the subvector.
sub_cursor_at_base(sub_base, sub_bl) == sub_base

\* emitter.c emit_edge_list_init, `sub_cursor = sub_base + sub_bl`: the tail
\* of a subvector starts after its own words.
sub_cursor(sub_base, sub_bl) == sub_base + sub_bl

\* emitter.c emit_edge_list_init from element j on: the cursor it returns,
\* the array indices the statements it writes assign, and for every nested
\* list the slot of its parent, the index whose address the statement
\* `arr[slot] = B_ADDR(arr[start])` stores there, and the words of its own.
RECURSIVE EdgeListInitFrom(_, _, _, _)
EdgeListInitFrom(base, list, j, cursor) ==
    IF j > Len(list.list) THEN [cursor |-> cursor, writes |-> {}, regions |-> {}]
    ELSE LET elem == list.list[j] IN
         IF elem.kind = "INIT_EXPR"
         THEN LET rest == EdgeListInitFrom(base, list, j + 1, cursor)
              IN  [cursor |-> rest.cursor, writes |-> {base + (j - 1)} \cup rest.writes,
                   regions |-> rest.regions]
         ELSE LET sub_base == cursor
                  sub_bl   == nested_base_len(elem)
                  sub      == EdgeListInitFrom(sub_base, elem, 1,
                                               sub_cursor(sub_base, sub_bl))
                  need_end == sub_base + edge_words_total(elem)
                  after    == IF sub.cursor < need_end THEN need_end ELSE sub.cursor
                  rest     == EdgeListInitFrom(base, list, j + 1, after)
              IN  [cursor |-> rest.cursor,
                   writes |-> {base + (j - 1)} \cup sub.writes \cup rest.writes,
                   regions |-> {[slot |-> base + (j - 1), start |-> sub_base,
                                 len |-> sub_bl, elems |-> Len(elem.list)]}
                               \cup sub.regions \cup rest.regions]

emit_edge_list_init(base, list, cursor) ==
    IF list.kind # "INIT_LIST" THEN [cursor |-> cursor, writes |-> {}, regions |-> {}]
    ELSE EdgeListInitFrom(base, list, 1, cursor)

\* emitter.c emit_program_c, the is_single_str test of a blob.
is_single_str(item) ==
    /\ item.init.kind = "INIT_LIST"
    /\ Len(item.init.list) = 1
    /\ item.init.list[1].kind = "INIT_EXPR"
    /\ item.init.list[1].expr = "EX_STR"

\* emitter.c emit_program_c, outer_len of a vector.
VectorOuterLen(item) ==
    LET init_len == init_list_length(item.init)
        unbound  == IF init_len # 0 THEN init_len ELSE 1
    IN  IF item.has_empty = 1 THEN unbound
        ELSE IF item.bound # NoExpr
        THEN LET r  == try_eval_const_expr(item.bound)
                 bv == IF r.out < 0 THEN 0 ELSE r.out
                 ol == IF r.ret = 1 THEN bv + 1 ELSE unbound
             IN  IF init_len > ol THEN init_len ELSE ol
        ELSE unbound

\* No backing array.
NoArray == [kind |-> "none", outer |-> 0, tail |-> 0, len |-> 0]

ExtInit ==
    /\ extPc = "parse"
    /\ extItem = NoItem
    /\ extStatus = "running"
    /\ extArray = NoArray
    /\ extWrites = {}
    /\ extCursor = 0
    /\ extRegions = {}

\* parser.c parse_extern_var_def, `name[]` or `name[bound]`, with a brace
\* list, a comma list, or no initializer.
ParseVectorDef ==
    /\ extPc = "parse"
    /\ \E init \in InitRoots \cup {NoInit} :
          \/ extItem' = ExternItem("EXTVAR_VECTOR", 1, NoExpr, init)
          \/ \E b \in BoundChoices :
                extItem' = ExternItem("EXTVAR_VECTOR", 0, b, init)
    /\ extPc' = "sem"
    /\ UNCHANGED <<extStatus, extArray, extWrites, extCursor, extRegions>>
    /\ UNCHANGED notExt

\* parser.c parse_extern_var_def, `name { ... }` or `name ival, ival`.
ParseBlobDef ==
    /\ extPc = "parse"
    /\ \E init \in InitRoots : extItem' = ExternItem("EXTVAR_BLOB", 0, NoExpr, init)
    /\ extPc' = "sem"
    /\ UNCHANGED <<extStatus, extArray, extWrites, extCursor, extRegions>>
    /\ UNCHANGED notExt

\* sem.c sem_check_program on the file that holds this one definition: the
\* pre-pass adds the name to the empty global scope, there is no function
\* body and no implicit static; nothing reads the bound or the initializer.
ExtSemCheck ==
    /\ extPc = "sem"
    /\ extPc' = "emit"
    /\ UNCHANGED <<extItem, extStatus, extArray, extWrites, extCursor, extRegions>>
    /\ UNCHANGED notExt

\* emitter.c emit_program_c, first pass, TOP_EXTERN_DEF.
EmitStorage ==
    /\ extPc = "emit"
    /\ LET tail == edge_tail_words_top(extItem.init) IN
       IF extItem.vkind = "EXTVAR_BLOB"
       THEN IF is_single_str(extItem)
            THEN extArray' = NoArray
            ELSE LET base_len == init_list_length(extItem.init)
                     total    == base_len + tail
                 IN  extArray' = [kind |-> "blob", outer |-> base_len, tail |-> tail,
                                  len |-> IF total = 0 THEN 1 ELSE total]
       ELSE LET outer_len == VectorOuterLen(extItem)
                total     == outer_len + tail
            IN  extArray' = [kind |-> "store", outer |-> outer_len, tail |-> tail,
                             len |-> IF total = 0 THEN 1 ELSE total]
    /\ extPc' = "init"
    /\ UNCHANGED <<extItem, extStatus, extWrites, extCursor, extRegions>>
    /\ UNCHANGED notExt

\* emitter.c emit_program_c, the body of __b_init, TOP_EXTERN_DEF; the
\* compilation then ends without an error.
EmitInit ==
    /\ extPc = "init"
    /\ LET r == IF extItem.vkind = "EXTVAR_BLOB"
                THEN IF is_single_str(extItem)
                     THEN [cursor |-> 0, writes |-> {}, regions |-> {}]
                     ELSE emit_edge_list_init(0, extItem.init,
                                              init_list_length(extItem.init))
                ELSE IF extItem.init.kind = "INIT_LIST"
                THEN emit_edge_list_init(0, extItem.init, VectorOuterLen(extItem))
                ELSE [cursor |-> 0, writes |-> {}, regions |-> {}]
       IN  /\ extWrites' = r.writes
           /\ extCursor' = r.cursor
           /\ extRegions' = r.regions
    /\ extPc' = "done"
    /\ extStatus' = "ok"
    /\ UNCHANGED <<extItem, extArray>>
    /\ UNCHANGED notExt

ExtNext ==
    \/ ParseVectorDef
    \/ ParseBlobDef
    \/ ExtSemCheck
    \/ EmitStorage
    \/ EmitInit

-----------------------------------------------------------------------------
(***************************************************************************)
(* Name mangling.                                                          *)
(*                                                                         *)
(* A name is the sequence of its characters.  lexer.c lx_next makes an     *)
(* identifier of a letter or '_' followed by letters, digits, '_' and '.'. *)
(***************************************************************************)
Letters ==
    {"a", "b", "c", "d", "e", "f", "g", "h", "i", "j", "k", "l", "m", "n",
     "o", "p", "q", "r", "s", "t", "u", "v", "w", "x", "y", "z"}

DecDigits == <<"0", "1", "2", "3", "4", "5", "6", "7", "8", "9">>

HexDigits == <<"0", "1", "2", "3", "4", "5", "6", "7", "8", "9",
               "A", "B", "C", "D", "E", "F">>

\* The B names of one source file.
BNames ==
    { <<"a", ".", "b">>, <<"a", "_", "b">>, <<"a", "_", "b", "_", "2">>,
      <<"d", "o">>, <<"x">> }

\* emitter.c c_keywords: the entries that a name of BNames can meet.
c_keywords ==
    { <<"d", "o">>, <<"i", "n", "t">>, <<"f", "o", "r">>,
      <<"c", "h", "a", "r">>, <<"v", "o", "i", "d">> }

is_c_keyword(name) == name \in c_keywords

is_c_ident_char(c) ==
    c \in Letters \/ (\E d \in 1..10 : c = DecDigits[d]) \/ c = "_"

is_c_ident_first(c) == c \in Letters \/ c = "_"

\* The character code (ASCII) of the characters that are in no identifier.
CharCode(c) == IF c = "." THEN 46 ELSE IF c = "$" THEN 36 ELSE 63

\* sprintf "%02X"
Hex(c) == <<HexDigits[(CharCode(c) \div 16) + 1], HexDigits[(CharCode(c) % 16) + 1]>>

RECURSIVE MangleRest(_, _)
MangleRest(original, i) ==
    IF i > Len(original) THEN <<>>
    ELSE LET c == original[i]
             p == IF is_c_ident_char(c) THEN <<c>>
                  ELSE IF c = "." THEN <<"_">>
                  ELSE <<"_">> \o Hex(c)
         IN  p \o MangleRest(original, i + 1)

mangle_name_raw(original) ==
    IF original = <<>> THEN <<"_", "_", "e", "m", "p", "t", "y">>
    ELSE LET first == IF ~is_c_ident_first(original[1])
                      THEN <<"_">> \o (IF original[1] = "." THEN <<"_">>
                                       ELSE Hex(original[1]))
                      ELSE <<original[1]>>
         IN  first \o MangleRest(original, 2)

mangled_exists(map, mangled) ==
    \E i \in 1..Len(map) : map[i].mangled = mangled

\* sprintf "%d" of a positive number
RECURSIVE Decimal(_)
Decimal(n) ==
    IF n < 10 THEN <<DecDigits[n + 1]>>
    ELSE Decimal(n \div 10) \o <<DecDigits[(n % 10) + 1]>>

\* The do-while loop of get_mangled_name that looks for a free suffix.
RECURSIVE UniqueName(_, _, _)
UniqueName(map, mangled, suffix) ==
    LET unique == mangled \o <<"_">> \o Decimal(suffix)
    IN  IF mangled_exists(map, unique) THEN UniqueName(map, mangled, suffix + 1)
        ELSE unique

\* The name after the keyword prefix.
Prefixed(original) ==
    LET mangled == mangle_name_raw(original)
    IN  IF is_c_keyword(mangled) THEN <<"b", "_">> \o mangled ELSE mangled

\* The identifier get_mangled_name builds for a name that is not in the map.
NewMangled(map, original) ==
    LET mangled == Prefixed(original)
    IN  IF mangled_exists(map, mangled) THEN UniqueName(map, mangled, 2)
        ELSE mangled

\* get_mangled_name calls free(mangled) on the keyword path and on the
\* collision path.  xmalloc took that memory from the compilation arena
\* (util.c xmalloc, main.c g_compilation_arena = arena_new()), so the pointer
\* was not returned by malloc and the call has undefined behaviour.
FreesArenaMemory(map, original) ==
    \/ is_c_keyword(mangle_name_raw(original))
    \/ mangled_exists(map, Prefixed(original))

\* What free() of a pointer into an arena chunk can do: return with no
\* effect, abort the process when the allocator detects the bad pointer, or
\* put the memory on a free list, after which a later malloc hands it out and
\* the strings that the arena keeps from that address on are overwritten.
FreeOutcomes == {"returns", "abort", "reused"}

\* What the overwritten identifier can read as: another string of the arena.
Overwritten(map, original) ==
    {map[i].mangled : i \in 1..Len(map)} \cup {mangle_name_raw(original)}

NoIdent == <<>>

NoOut == [role |-> "none", name |-> <<>>, ident |-> <<>>]

MnInit ==
    /\ name_map = <<>>
    /\ mnStatus = "running"
    /\ mnOut = NoOut
    /\ mnFirst = [n \in BNames |-> NoIdent]

\* emitter.c clear_name_map, called when emit_program_c starts a
\* compilation unit.
ClearNameMap ==
    /\ mnStatus = "running"
    /\ name_map # <<>>
    /\ name_map' = <<>>
    /\ mnFirst' = [n \in BNames |-> NoIdent]
    /\ mnOut' = NoOut
    /\ UNCHANGED mnStatus
    /\ UNCHANGED notMn

\* emitter.c get_mangled_name, and the identifier written with its result.
get_mangled_name(original, role) ==
    IF \E i \in 1..Len(name_map) : name_map[i].original = original
    THEN LET i == CHOOSE k \in 1..Len(name_map) :
                      /\ name_map[k].original = original
                      /\ \A j \in 1..(k - 1) : name_map[j].original # original
         IN  /\ mnOut' = [role |-> role, name |-> original,
                          ident |-> name_map[i].mangled]
             /\ UNCHANGED <<name_map, mnStatus, mnFirst>>
    ELSE \E o \in (IF FreesArenaMemory(name_map, original) THEN FreeOutcomes
                   ELSE {"returns"}) :
            IF o = "abort"
            THEN /\ mnStatus' = "crash"
                 /\ UNCHANGED <<name_map, mnOut, mnFirst>>
            ELSE \E mangled \in (IF o = "reused"
                                 THEN Overwritten(name_map, original)
                                 ELSE {NewMangled(name_map, original)}) :
                    /\ name_map' = Append(name_map, [original |-> original,
                                                     mangled |-> mangled])
                    /\ mnOut' = [role |-> role, name |-> original,
                                 ident |-> mangled]
                    /\ mnFirst' = [mnFirst EXCEPT ![original] = mangled]
                    /\ UNCHANGED mnStatus

\* emitter.c emit_name: a variable, a function or a parameter, at its
\* declaration, definition or use.
EmitName ==
    /\ mnStatus = "running"
    /\ \E n \in BNames : get_mangled_name(n, "name")
    /\ UNCHANGED notMn

\* emitter.c emit_stmt and emit_stmt_switchctx, ST_LABEL.
EmitLabel ==
    /\ mnStatus = "running"
    /\ \E n \in BNames : mnOut' = [role |-> "label", name |-> n, ident |-> n]
    /\ UNCHANGED <<name_map, mnStatus, mnFirst>>
    /\ UNCHANGED notMn

\* emitter.c emit_stmt, ST_GOTO.
EmitGoto ==
    /\ mnStatus = "running"
    /\ \E n \in BNames : mnOut' = [role |-> "goto", name |-> n, ident |-> n]
    /\ UNCHANGED <<name_map, mnStatus, mnFirst>>
    /\ UNCHANGED notMn

MnNext == ClearNameMap \/ EmitName \/ EmitLabel \/ EmitGoto

-----------------------------------------------------------------------------
(***************************************************************************)
(* String pool.                                                            *)
(*                                                                         *)
(* A literal is the sequence of its bytes after escape processing.  The    *)
(* lexer keeps all of them in its buffer; from parse_primary on the        *)
(* literal is a C string.  A word of an emitted array is the sequence of   *)
(* its W bytes, the least significant first.                               *)
(***************************************************************************)
\* Bytes of a literal: NUL (the escape *0), 'a', 'b'.
StrBytes == {0, 97, 98}

RECURSIVE ByteSeqs(_)
ByteSeqs(n) ==
    IF n = 0 THEN {<<>>}
    ELSE LET shorter == ByteSeqs(n - 1)
         IN  shorter \cup {Append(s, b) : s \in {t \in shorter : Len(t) = n - 1},
                                         b \in StrBytes}

\* lexer.c lx_next, strings: the bytes between the quotes, escapes replaced.
StrLiterals == ByteSeqs(MaxStrLen)

\* The C string at the start of a buffer: the bytes before the first NUL
\* (strlen, strcmp, sdup and the loop `while (s[n]) n++` all stop there).
RECURSIVE CStr(_)
CStr(buf) ==
    IF buf = <<>> \/ Head(buf) = 0 THEN <<>>
    ELSE <<Head(buf)>> \o CStr(Tail(buf))

\* parser.c parse_primary, TK_STR: e->as.str = sdup(P->cur.lexeme).
ExprStr(lit) == [lit |-> lit, str |-> CStr(lit)]

\* emitter.c get_string_id: the pool after the call, and the id returned.
get_string_id(pool, s) ==
    IF \E i \in 1..Len(pool) : pool[i] = s
    THEN [pool |-> pool,
          id |-> (CHOOSE i \in 1..Len(pool) :
                     pool[i] = s /\ \A j \in 1..(i - 1) : pool[j] # s) - 1]
    ELSE [pool |-> Append(pool, s), id |-> Len(pool)]

\* emitter.c collect_strings_program: get_string_id for every EX_STR node.
RECURSIVE CollectStrings(_, _, _)
CollectStrings(pool, nodes, k) ==
    IF k > Len(nodes) THEN pool
    ELSE CollectStrings(get_string_id(pool, nodes[k].str).pool, nodes, k + 1)

\* emitter.c emit_string_pool: the words written for one entry.
PackWords(s) ==
    LET n == Len(s)
        total_bytes == n + 1
        words_needed == (total_bytes + W - 1) \div W
    IN  [wi \in 1..words_needed |->
            [bi \in 1..W |->
                LET byte_idx == (wi - 1) * W + (bi - 1)
                IN  IF byte_idx < n THEN s[byte_idx + 1]
                    ELSE IF byte_idx = n THEN 4
                    ELSE 0]]

StrInit ==
    /\ strPc = "parse"
    /\ strNodes = <<>>
    /\ string_pool = <<>>
    /\ strArrays = <<>>
    /\ strRefs = <<>>

\* lexer.c lx_next and parser.c parse_primary: one more string literal.
ParseString ==
    /\ strPc = "parse"
    /\ Len(strNodes) < MaxStrings
    /\ \E lit \in StrLiterals : strNodes' = Append(strNodes, ExprStr(lit))
    /\ UNCHANGED <<strPc, string_pool, strArrays, strRefs>>
    /\ UNCHANGED notStr

\* emitter.c emit_program_c: the pool is reset, collect_strings_program
\* fills it, emit_string_pool writes it.
EmitStringPool ==
    /\ strPc = "parse"
    /\ strNodes # <<>>
    /\ LET pool == CollectStrings(<<>>, strNodes, 1)
       IN  /\ string_pool' = pool
           /\ strArrays' = [i \in 1..Len(pool) |-> PackWords(pool[i])]
    /\ strPc' = "refs"
    /\ UNCHANGED <<strNodes, strRefs>>
    /\ UNCHANGED notStr

\* emitter.c emit_expr, EX_STR: the reference written for the next node.
EmitStringRef ==
    /\ strPc = "refs"
    /\ Len(strRefs) < Len(strNodes)
    /\ LET r == get_string_id(string_pool, strNodes[Len(strRefs) + 1].str)
       IN  /\ string_pool' = r.pool
           /\ strRefs' = Append(strRefs, r.id)
    /\ UNCHANGED <<strPc, strNodes, strArrays>>
    /\ UNCHANGED notStr

\* The emitter has written the whole program.
EmitStringsEnd ==
    /\ strPc = "refs"
    /\ Len(strRefs) = Len(strNodes)
    /\ strPc' = "done"
    /\ UNCHANGED <<strNodes, string_pool, strArrays, strRefs>>
    /\ UNCHANGED notStr

StrNext == ParseString \/ EmitStringPool \/ EmitStringRef \/ EmitStringsEnd

-----------------------------------------------------------------------------
(***************************************************************************)
(* Emission of ++, -- and the assignment operators.                        *)
(*                                                                         *)
(* What emit_expr writes for a node is the sequence of its pieces: the     *)
(* texts it writes itself, and one piece for each recursive emit_expr call *)
(* on a child, which stands for the text of that child.                    *)
(***************************************************************************)
ExprIndex(base, idx) ==
    [kind |-> "EX_INDEX", op |-> "", num |-> 0, var |-> "", args |-> <<base, idx>>]

ExprPost(op, lhs) ==
    [kind |-> "EX_POST", op |-> op, num |-> 0, var |-> "", args |-> <<lhs>>]

ExprAssign(op, lhs, rhs) ==
    [kind |-> "EX_ASSIGN", op |-> op, num |-> 0, var |-> "", args |-> <<lhs, rhs>>]

\* parser.c is_lvalue
is_lvalue(e) ==
    \/ e.kind = "EX_VAR"
    \/ e.kind = "EX_INDEX"
    \/ e.kind = "EX_UNARY" /\ e.op = "TK_STAR"

\* emitter.c is_complex_lvalue, and a variant that knows only EX_INDEX.
is_complex_lvalue_index_only(e) == e.kind = "EX_INDEX"

is_complex_lvalue(e) ==
    \/ e.kind = "EX_INDEX"
    \/ e.kind = "EX_UNARY" /\ e.op = "TK_STAR"

\* The operands of the modelled nodes: a variable, and index and
\* dereference expressions with and without a side effect inside.
RmwTargets ==
    { ExprVar("x"),
      ExprIndex(ExprVar("v"), ExprVar("i")),
      ExprIndex(ExprVar("v"), ExprPost("TK_PLUSPLUS", ExprVar("i"))),
      ExprUnary("TK_STAR", ExprVar("p")),
      ExprUnary("TK_STAR", ExprPost("TK_PLUSPLUS", ExprVar("p"))) }

RmwValues == {ExprNum(1), ExprVar("y")}

\* Operands that are no lvalue.
RmwNonLvalues ==
    { ExprNum(1),
      ExprUnary("TK_MINUS", ExprVar("x")),
      ExprBinary("TK_PLUS", ExprVar("x"), ExprNum(1)) }

RmwOperands == RmwTargets \cup RmwNonLvalues

NoTry == [form |-> "none", op |-> "", operand |-> NoExpr]

IncDecOps == {"TK_PLUSPLUS", "TK_MINUSMINUS"}

\* The =<op> forms.
CompoundOps ==
    {"TK_PLUSEQ", "TK_MINUSEQ", "TK_STAREQ", "TK_SLASHEQ", "TK_PERCENTEQ",
     "TK_LSHIFTEQ", "TK_RSHIFTEQ", "TK_ANDEQ", "TK_OREQ"}

\* The relational-assignment forms.
RelAssignOps == {"TK_LTEQ", "TK_LEEQ", "TK_GTEQ", "TK_GEEQ", "TK_EQEQ", "TK_NEEQ"}

\* parser.c is_assign_op
AssignOps == {"TK_ASSIGN"} \cup CompoundOps \cup RelAssignOps

\* The word widths the driver can select.
WordBits == {0, 16, 32}

\* lexer.c tk_name, for the operators emit_expr writes with it.
tk_name(op) ==
    CASE op = "TK_PLUSPLUS" -> "++"
      [] op = "TK_MINUSMINUS" -> "--"
      [] op = "TK_LT" -> "<"
      [] op = "TK_LE" -> "<="
      [] op = "TK_GT" -> ">"
      [] op = "TK_GE" -> ">="
      [] op = "TK_EQ" -> "=="
      [] op = "TK_NE" -> "!="
      [] OTHER -> op

\* emitter.c assignment_op_to_c
assignment_op_to_c(op) ==
    CASE op = "TK_ASSIGN" -> "="
      [] op = "TK_PLUSEQ" -> "+="
      [] op = "TK_MINUSEQ" -> "-="
      [] op = "TK_STAREQ" -> "*="
      [] op = "TK_SLASHEQ" -> "/="
      [] op = "TK_PERCENTEQ" -> "%="
      [] op = "TK_LSHIFTEQ" -> "<<="
      [] op = "TK_RSHIFTEQ" -> ">>="
      [] op = "TK_ANDEQ" -> "&="
      [] op = "TK_OREQ" -> "|="
      [] OTHER -> tk_name(op)

\* emit_expr, EX_ASSIGN: the operator of a relational assignment.
RelOpOf(op) ==
    CASE op = "TK_LTEQ" -> "TK_LT"
      [] op = "TK_LEEQ" -> "TK_LE"
      [] op = "TK_GTEQ" -> "TK_GT"
      [] op = "TK_GEEQ" -> "TK_GE"
      [] op = "TK_EQEQ" -> "TK_EQ"
      [] op = "TK_NEEQ" -> "TK_NE"
      [] OTHER -> "TK_EOF"

\* emit_expr, EX_ASSIGN: the helper of a compound assignment.
HelperName(op) ==
    CASE op = "TK_PLUSEQ" -> "add_assign"
      [] op = "TK_MINUSEQ" -> "sub_assign"
      [] op = "TK_STAREQ" -> "mul_assign"
      [] op = "TK_SLASHEQ" -> "div_assign"
      [] op = "TK_PERCENTEQ" -> "mod_assign"
      [] op = "TK_LSHIFTEQ" -> "lsh_assign"
      [] op = "TK_RSHIFTEQ" -> "rsh_assign"
      [] op = "TK_ANDEQ" -> "and_assign"
      [] op = "TK_OREQ" -> "or_assign"
      [] OTHER -> ""

\* A text emit_expr writes, and the text of a child.
Text(s) == [kind |-> "text", text |-> s, expr |-> NoExpr]

Child(e) == [kind |-> "expr", text |-> "", expr |-> e]

\* emitter.c emit_expr for TK_PLUSPLUS and TK_MINUSMINUS of EX_UNARY, for
\* EX_POST and for EX_ASSIGN.
emit_expr(e, word_bits) ==
    IF e.kind = "EX_UNARY"
    THEN LET rhs == e.args[1]
         IN  IF is_complex_lvalue(rhs) \/ word_bits # 0
             THEN <<Text("b_"),
                    Text(IF e.op = "TK_PLUSPLUS" THEN "preinc" ELSE "predec"),
                    Text("(&("), Child(rhs), Text("))")>>
             ELSE <<Text(tk_name(e.op)), Text("("), Child(rhs), Text(")")>>
    ELSE IF e.kind = "EX_POST"
    THEN LET lhs == e.args[1]
         IN  IF is_complex_lvalue(lhs) \/ word_bits # 0
             THEN <<Text("b_"),
                    Text(IF e.op = "TK_PLUSPLUS" THEN "postinc" ELSE "postdec"),
                    Text("(&("), Child(lhs), Text("))")>>
             ELSE <<Text("("), Child(lhs), Text(tk_name(e.op)), Text(")")>>
    ELSE LET lhs == e.args[1]
             rhs == e.args[2]
             rel_op == RelOpOf(e.op)
         IN  IF rel_op # "TK_EOF"
             THEN <<Text("("), Child(lhs), Text(" = ("), Child(lhs),
                    Text(tk_name(rel_op)), Child(rhs), Text("))")>>
             ELSE IF e.op # "TK_ASSIGN" /\ (is_complex_lvalue(lhs) \/ word_bits # 0)
             THEN IF HelperName(e.op) # ""
                  THEN <<Text("b_"), Text(HelperName(e.op)), Text("(&("),
                         Child(lhs), Text("), "), Child(rhs), Text(")")>>
                  ELSE <<Text("("), Child(lhs), Text(assignment_op_to_c(e.op)),
                         Child(rhs), Text(")")>>
             ELSE <<Text("("), Child(lhs), Text(assignment_op_to_c(e.op)),
                    Child(rhs), Text(")")>>

\* How many pieces of an emitted text are the text of `e`.  Every piece of
\* the texts above is evaluated once when the emitted expression runs: the
\* b_* helpers are functions, and =, op=, ++ and the relational operators
\* evaluate each operand once.
Occurrences(out, e) == Cardinality({k \in 1..Len(out) : out[k] = Child(e)})

RmwInit ==
    /\ rmwPc = "parse"
    /\ rmwStatus = "running"
    /\ rmwTried = NoTry
    /\ rmwExpr = NoExpr
    /\ current_word_bits = 0
    /\ rmwOut = <<>>
    /\ rmwEvals = 0

\* util.c dief: "bcc: <message>" on stderr, without an error code; exit(1).
RmwDief ==
    /\ rmwStatus' = "dief"
    /\ rmwPc' = "done"
    /\ UNCHANGED rmwExpr

\* parser.c parse_unary: ++ or -- before its operand.
ParsePrefix ==
    /\ rmwPc = "parse"
    /\ \E op \in IncDecOps, rhs \in RmwOperands :
          /\ rmwTried' = [form |-> "prefix", op |-> op, operand |-> rhs]
          /\ IF ~is_lvalue(rhs) THEN RmwDief
             ELSE /\ rmwExpr' = ExprUnary(op, rhs)
                  /\ rmwPc' = "emit"
                  /\ UNCHANGED rmwStatus
    /\ UNCHANGED <<current_word_bits, rmwOut, rmwEvals>>
    /\ UNCHANGED notRmw

\* parser.c parse_unary: & before its operand.  The emission of & is not
\* followed further.
ParseAddressOf ==
    /\ rmwPc = "parse"
    /\ \E rhs \in RmwOperands :
          /\ rmwTried' = [form |-> "prefix", op |-> "TK_AMP", operand |-> rhs]
          /\ IF ~is_lvalue(rhs) THEN RmwDief
             ELSE /\ rmwExpr' = ExprUnary("TK_AMP", rhs)
                  /\ rmwPc' = "done"
                  /\ UNCHANGED rmwStatus
    /\ UNCHANGED <<current_word_bits, rmwOut, rmwEvals>>
    /\ UNCHANGED notRmw

\* parser.c parse_postfix: ++ or -- after its operand.
ParsePostfix ==
    /\ rmwPc = "parse"
    /\ \E op \in IncDecOps, lhs \in RmwOperands :
          /\ rmwTried' = [form |-> "postfix", op |-> op, operand |-> lhs]
          /\ IF ~is_lvalue(lhs) THEN RmwDief
             ELSE /\ rmwExpr' = ExprPost(op, lhs)
                  /\ rmwPc' = "emit"
                  /\ UNCHANGED rmwStatus
    /\ UNCHANGED <<current_word_bits, rmwOut, rmwEvals>>
    /\ UNCHANGED notRmw

\* parser.c parse_assignment: an assignment operator after its left side.
ParseAssign ==
    /\ rmwPc = "parse"
    /\ \E op \in AssignOps, lhs \in RmwOperands, rhs \in RmwValues :
          /\ rmwTried' = [form |-> "assign", op |-> op, operand |-> lhs]
          /\ IF ~is_lvalue(lhs) THEN RmwDief
             ELSE /\ rmwExpr' = ExprAssign(op, lhs, rhs)
                  /\ rmwPc' = "emit"
                  /\ UNCHANGED rmwStatus
    /\ UNCHANGED <<current_word_bits, rmwOut, rmwEvals>>
    /\ UNCHANGED notRmw

\* emitter.c emit_program_c sets current_word_bits; emit_expr writes the
\* node.
EmitRmw ==
    /\ rmwPc = "emit"
    /\ \E word_bits \in WordBits :
          /\ current_word_bits' = word_bits
          /\ rmwOut' = emit_expr(rmwExpr, word_bits)
    /\ rmwPc' = "run"
    /\ UNCHANGED <<rmwStatus, rmwTried, rmwExpr, rmwEvals>>
    /\ UNCHANGED notRmw

\* One execution of the emitted expression.
RunRmw ==
    /\ rmwPc = "run"
    /\ rmwEvals' = Occurrences(rmwOut, rmwExpr.args[1])
    /\ rmwPc' = "done"
    /\ UNCHANGED <<rmwStatus, rmwTried, rmwExpr, current_word_bits, rmwOut>>
    /\ UNCHANGED notRmw

RmwNext ==
    \/ ParsePrefix \/ ParseAddressOf \/ ParsePostfix \/ ParseAssign
    \/ EmitRmw \/ RunRmw

-----------------------------------------------------------------------------
(***************************************************************************)
(* Statement nesting in the parser.                                        *)
(*                                                                         *)
(* nestStack holds the calls of the statement parsers that have not        *)
(* returned: "func" (parse_function, whose body is a parse_block), "block",*)
(* "if" and "else" (parse_if in its first and second statement), "while",  *)
(* "label" and "switch".  A block takes statements until its brace; each   *)
(* of the others takes one statement and returns.                          *)
(***************************************************************************)
\* Statement parsers that take one statement.
OneStmtKinds == {"if", "else", "while", "label", "switch"}

\* parser.c parse_switch, `P->switch_depth--`, and a variant without it.
LeaveSwitchKeepDepth(depth) == depth

LeaveSwitch(depth) == depth - 1

\* The parsers that can have returned once a statement is complete: every
\* result is the stack and the counter after some of them returned.
RECURSIVE StmtDone(_, _)
StmtDone(stack, depth) ==
    IF stack = <<>> THEN {[stack |-> stack, depth |-> depth]}
    ELSE LET top  == stack[Len(stack)]
             rest == SubSeq(stack, 1, Len(stack) - 1)
         IN  IF top \in {"func", "block"}
             THEN {[stack |-> stack, depth |-> depth]}
             ELSE IF top = "if"
             THEN StmtDone(rest, depth)
                    \cup {[stack |-> Append(rest, "else"), depth |-> depth]}
             ELSE IF top = "switch"
             THEN StmtDone(rest, LeaveSwitch(depth))
             ELSE StmtDone(rest, depth)

InSwitch(stack) == \E i \in 1..Len(stack) : stack[i] = "switch"

NoCase == [tok |-> "none", in_switch |-> FALSE, accepted |-> FALSE]

NestInit ==
    /\ nestStack = <<>>
    /\ nestDepth = 0
    /\ nestDefs = 0
    /\ nestStatus = "running"
    /\ nestLast = NoCase

\* parser.c parse_program_ast and parse_function: a function definition up
\* to the brace of its body.
ParseFunction ==
    /\ nestStatus = "running"
    /\ nestStack = <<>>
    /\ nestDefs < MaxDefs
    /\ nestStack' = <<"func">>
    /\ UNCHANGED <<nestDepth, nestDefs, nestStatus, nestLast>>
    /\ UNCHANGED notNest

\* parser.c parse_program_ast: `case` or `default` where a top-level
\* definition must start.
ParseTopLevelCase ==
    /\ nestStatus = "running"
    /\ nestStack = <<>>
    /\ \E tok \in {"TK_CASE", "TK_DEFAULT"} :
          nestLast' = [tok |-> tok, in_switch |-> FALSE, accepted |-> FALSE]
    /\ nestStatus' = "dief"
    /\ UNCHANGED <<nestStack, nestDepth, nestDefs>>
    /\ UNCHANGED notNest

\* parser.c parse_stmt: parse_block, parse_if, parse_while and parse_label
\* up to their statement.
ParseCompound ==
    /\ nestStatus = "running"
    /\ nestStack # <<>>
    /\ Len(nestStack) < MaxNest
    /\ \E kind \in {"block", "if", "while", "label"} :
          nestStack' = Append(nestStack, kind)
    /\ UNCHANGED <<nestDepth, nestDefs, nestStatus, nestLast>>
    /\ UNCHANGED notNest

\* parser.c parse_switch up to its statement.
ParseSwitchStmt ==
    /\ nestStatus = "running"
    /\ nestStack # <<>>
    /\ Len(nestStack) < MaxNest
    /\ nestStack' = Append(nestStack, "switch")
    /\ nestDepth' = nestDepth + 1
    /\ UNCHANGED <<nestDefs, nestStatus, nestLast>>
    /\ UNCHANGED notNest

\* parser.c parse_case and parse_default.
ParseCaseStmt ==
    /\ nestStatus = "running"
    /\ nestStack # <<>>
    /\ \E tok \in {"TK_CASE", "TK_DEFAULT"} :
          IF nestDepth = 0
          THEN /\ nestLast' = [tok |-> tok, in_switch |-> InSwitch(nestStack),
                               accepted |-> FALSE]
               /\ nestStatus' = "dief"
               /\ UNCHANGED <<nestStack, nestDepth>>
          ELSE /\ nestLast' = [tok |-> tok, in_switch |-> InSwitch(nestStack),
                               accepted |-> TRUE]
               /\ \E r \in StmtDone(nestStack, nestDepth) :
                     /\ nestStack' = r.stack
                     /\ nestDepth' = r.depth
               /\ UNCHANGED nestStatus
    /\ UNCHANGED nestDefs
    /\ UNCHANGED notNest

\* parser.c parse_stmt: an expression statement, return, goto, auto, extrn
\* or the empty statement.
ParseSimpleStmt ==
    /\ nestStatus = "running"
    /\ nestStack # <<>>
    /\ \E r \in StmtDone(nestStack, nestDepth) :
          /\ nestStack' = r.stack
          /\ nestDepth' = r.depth
    /\ UNCHANGED <<nestDefs, nestStatus, nestLast>>
    /\ UNCHANGED notNest

\* parser.c parse_block at its closing brace; for the body of a function,
\* parse_function returns and parse_program_ast pushes the Top item.
ParseBlockEnd ==
    /\ nestStatus = "running"
    /\ nestStack # <<>>
    /\ nestStack[Len(nestStack)] \in {"func", "block"}
    /\ LET rest == SubSeq(nestStack, 1, Len(nestStack) - 1)
       IN  \E r \in StmtDone(rest, nestDepth) :
              /\ nestStack' = r.stack
              /\ nestDepth' = r.depth
    /\ nestDefs' = IF Len(nestStack) = 1 THEN nestDefs + 1 ELSE nestDefs
    /\ UNCHANGED <<nestStatus, nestLast>>
    /\ UNCHANGED notNest

NestNext ==
    \/ ParseFunction \/ ParseTopLevelCase \/ ParseCompound \/ ParseSwitchStmt
    \/ ParseCaseStmt \/ ParseSimpleStmt \/ ParseBlockEnd

-----------------------------------------------------------------------------
(***************************************************************************)
(* Lexer.                                                                  *)
(*                                                                         *)
(* A byte is a one-character string; the NUL byte is the empty string,     *)
(* which is also what lx_peek returns at the end of the source.            *)
(***************************************************************************)
NUL == ""

NL == "\n"

DQ == "\""

\* The bytes of the sources tried: NUL, white space, a letter, the string
\* quote, the characters of comments, escapes and operators, and a
\* character that starts no token.
SrcBytes == {NUL, NL, "a", DQ, "*", "/", "=", "<", "$"}

RECURSIVE SrcSeqs(_)
SrcSeqs(n) ==
    IF n = 0 THEN {<<>>}
    ELSE LET shorter == SrcSeqs(n - 1)
         IN  shorter \cup {Append(s, b) : s \in {t \in shorter : Len(t) = n - 1},
                                         b \in SrcBytes}

Sources == SrcSeqs(MaxSrcLen)

\* ctype.h in the C locale, for the bytes above and their like.
IsSpace(c) == c \in {" ", NL, "\t"}

IsAlpha(c) == c \in Letters

IsDigit(c) == \E d \in 1..10 : c = DecDigits[d]

IsAlnum(c) == IsAlpha(c) \/ IsDigit(c)

lx_peek(src, L) == IF L.i >= Len(src) THEN NUL ELSE src[L.i + 1]

lx_peek2(src, L) == IF L.i + 1 >= Len(src) THEN NUL ELSE src[L.i + 2]

\* L->src[L->i + 2]; read_file_all ends the buffer with a NUL byte.
SrcAt2(src, L) == IF L.i + 2 >= Len(src) THEN NUL ELSE src[L.i + 3]

\* The values of Lexer.i, Lexer.line and Lexer.col on the sources tried.
LexerStates ==
    [i : 0..MaxSrcLen, line : 1..(MaxSrcLen + 1), col : 1..(MaxSrcLen + 1)]

\* lexer.c lx_get, and a variant that does not count the line.
lx_get_line_kept(src, L0) ==
    LET get[L \in LexerStates] ==
            LET c == lx_peek(src, L)
            IN  IF c = NUL THEN L
                ELSE [i |-> L.i + 1, line |-> L.line,
                      col |-> IF c = NL THEN 1 ELSE L.col + 1]
    IN  get[L0]

lx_get(src, L0) ==
    LET get[L \in LexerStates] ==
            LET c == lx_peek(src, L)
            IN  IF c = NUL THEN L
                ELSE [i |-> L.i + 1,
                      line |-> IF c = NL THEN L.line + 1 ELSE L.line,
                      col |-> IF c = NL THEN 1 ELSE L.col + 1]
    IN  get[L0]

Get2(src, L) == lx_get(src, lx_get(src, L))

Get3(src, L) == lx_get(src, Get2(src, L))

\* The codes of util.c error_at_location that the lexer reports.
LexErrors == {"ERR_COMMENT_IMBALANCE", "ERR_EXPR_SYNTAX"}

\* A scan that went well, and one that ended in error_at_location.
Scanned(L) == [L |-> L, fatal |-> ""]

ScanFatal(L, code) == [L |-> L, fatal |-> code]

ScanResults == [L : LexerStates, fatal : LexErrors \cup {""}]

RECURSIVE SkipSpaces(_, _)
SkipSpaces(src, L0) ==
    LET skip[L \in LexerStates] ==
            IF IsSpace(lx_peek(src, L)) THEN SkipSpaces(src, lx_get(src, L))
            ELSE L
    IN  skip[L0]

\* lx_skip_ws_and_comments: the body of a comment up to its end.
RECURSIVE SkipCommentBody(_, _)
SkipCommentBody(src, L0) ==
    LET skip[L \in LexerStates] ==
            LET a == lx_peek(src, L)
            IN  IF a = NUL THEN ScanFatal(L, "ERR_COMMENT_IMBALANCE")
                ELSE IF a = "*" /\ lx_peek2(src, L) = "/"
                THEN Scanned(Get2(src, L))
                ELSE SkipCommentBody(src, lx_get(src, L))
    IN  skip[L0]

\* lx_skip_ws_and_comments: a // comment up to the end of the line.
RECURSIVE SkipLine(_, _)
SkipLine(src, L0) ==
    LET skip[L \in LexerStates] ==
            LET c == lx_peek(src, L)
            IN  IF c # NUL /\ c # NL THEN SkipLine(src, lx_get(src, L)) ELSE L
    IN  skip[L0]

RECURSIVE lx_skip_ws_and_comments(_, _)
lx_skip_ws_and_comments(src, L0) ==
    LET comment[r \in ScanResults] ==
            IF r.fatal # "" THEN r ELSE lx_skip_ws_and_comments(src, r.L)
        skip[L1 \in LexerStates] ==
            LET c == lx_peek(src, L1)
            IN  IF c = "/" /\ lx_peek2(src, L1) = "*"
                THEN comment[SkipCommentBody(src, Get2(src, L1))]
                ELSE IF c = "/" /\ lx_peek2(src, L1) = "/"
                THEN lx_skip_ws_and_comments(src, SkipLine(src, Get2(src, L1)))
                ELSE Scanned(L1)
    IN  skip[SkipSpaces(src, L0)]

\* lx_next, identifiers: the loop over the rest of the identifier.
RECURSIVE ScanIdent(_, _)
ScanIdent(src, L0) ==
    LET scan[L \in LexerStates] ==
            LET c == lx_peek(src, L)
            IN  IF IsAlnum(c) \/ c = "_" \/ c = "."
                THEN ScanIdent(src, lx_get(src, L)) ELSE L
    IN  scan[L0]

\* lx_next, numbers: the loop over the digits.
RECURSIVE ScanDigits(_, _)
ScanDigits(src, L0) ==
    LET scan[L \in LexerStates] ==
            IF IsDigit(lx_peek(src, L)) THEN ScanDigits(src, lx_get(src, L))
            ELSE L
    IN  scan[L0]

\* lexer.c parse_escape: the characters that may follow `*`.
EscapeChars == {"0", "e", "(", ")", "t", "*", "'", DQ, "n"}

\* lx_next, strings: the loop after the opening quote.
RECURSIVE ScanString(_, _)
ScanString(src, L0) ==
    LET escape[L1 \in LexerStates] ==
            LET e == lx_peek(src, L1)
            IN  IF e = NUL \/ e \notin EscapeChars
                THEN ScanFatal(lx_get(src, L1), "ERR_EXPR_SYNTAX")
                ELSE ScanString(src, lx_get(src, L1))
        scan[L \in LexerStates] ==
            LET ch == lx_peek(src, L)
            IN  IF ch = NUL THEN ScanFatal(L, "ERR_EXPR_SYNTAX")
                ELSE IF ch = DQ THEN Scanned(lx_get(src, L))
                ELSE IF ch = "*" THEN escape[lx_get(src, L)]
                ELSE ScanString(src, lx_get(src, L))
    IN  scan[L0]

\* lx_next, the operators of two and three characters: the token kind and
\* the number of characters, or 0 characters when there is none.
MultiCharOp(c, c2, c3) ==
    LET op(kind, n) == [kind |-> kind, n |-> n]
    IN  IF c = "+" /\ c2 = "+" THEN op("TK_PLUSPLUS", 2)
        ELSE IF c = "-" /\ c2 = "-" THEN op("TK_MINUSMINUS", 2)
        ELSE IF c = "=" /\ c2 = "+" THEN op("TK_PLUSEQ", 2)
        ELSE IF c = "=" /\ c2 = "-" THEN op("TK_MINUSEQ", 2)
        ELSE IF c = "=" /\ c2 = "*" THEN op("TK_STAREQ", 2)
        ELSE IF c = "=" /\ c2 = "/" THEN op("TK_SLASHEQ", 2)
        ELSE IF c = "=" /\ c2 = "%" THEN op("TK_PERCENTEQ", 2)
        ELSE IF c = "=" /\ c2 = "&" THEN op("TK_ANDEQ", 2)
        ELSE IF c = "=" /\ c2 = "|" THEN op("TK_OREQ", 2)
        ELSE IF c = "=" /\ c2 = "<" /\ c3 = "<" THEN op("TK_LSHIFTEQ", 3)
        ELSE IF c = "=" /\ c2 = ">" /\ c3 = ">" THEN op("TK_RSHIFTEQ", 3)
        ELSE IF c = "=" /\ c2 = "<" /\ c3 = "=" THEN op("TK_LEEQ", 3)
        ELSE IF c = "=" /\ c2 = ">" /\ c3 = "=" THEN op("TK_GEEQ", 3)
        ELSE IF c = "=" /\ c2 = "=" /\ c3 = "=" THEN op("TK_EQEQ", 3)
        ELSE IF c = "=" /\ c2 = "!" /\ c3 = "=" THEN op("TK_NEEQ", 3)
        ELSE IF c = "=" /\ c2 = "<" THEN op("TK_LTEQ", 2)
        ELSE IF c = "=" /\ c2 = ">" THEN op("TK_GTEQ", 2)
        ELSE IF c = "<" /\ c2 = "<" THEN op("TK_LSHIFT", 2)
        ELSE IF c = ">" /\ c2 = ">" THEN op("TK_RSHIFT", 2)
        ELSE IF c = "|" /\ c2 = "|" THEN op("TK_BARBAR", 2)
        ELSE IF c = "=" /\ c2 = "=" THEN op("TK_EQ", 2)
        ELSE IF c = "!" /\ c2 = "=" THEN op("TK_NE", 2)
        ELSE IF c = "<" /\ c2 = "=" THEN op("TK_LE", 2)
        ELSE IF c = ">" /\ c2 = "=" THEN op("TK_GE", 2)
        ELSE op("", 0)

\* lx_next, the tokens of one character.
OneCharTokens ==
    {"(", ")", "{", "}", ",", ";", ":", "=", "<", ">", "+", "-", "*", "/",
     "%", "!", "?", "[", "]", "&", "|"}

\* lexer.c mk_tok
mk_tok(kind, line, col) == [kind |-> kind, line |-> line, col |-> col]

NoTok == mk_tok("none", 0, 0)

\* lexer.c lx_next: the Lexer after the call, and the token returned or the
\* code of the error reported.  Character constants are not among the
\* sources tried.
lx_next(src, L0) ==
    LET ret(kind, line, col, LL) ==
            [L |-> LL, tok |-> mk_tok(kind, line, col), fatal |-> ""]
        err(LL, code) == [L |-> LL, tok |-> NoTok, fatal |-> code]
        string[line \in 1..(MaxSrcLen + 1), col \in 1..(MaxSrcLen + 1),
               r \in ScanResults] ==
            IF r.fatal # "" THEN err(r.L, r.fatal)
            ELSE ret("TK_STR", line, col, r.L)
        token[L \in LexerStates] ==
            LET c == lx_peek(src, L)
                m == MultiCharOp(c, lx_peek2(src, L), SrcAt2(src, L))
            IN  IF c = NUL THEN ret("TK_EOF", L.line, L.col, L)
                ELSE IF IsAlpha(c) \/ c = "_"
                THEN ret("TK_ID", L.line, L.col, ScanIdent(src, L))
                ELSE IF IsDigit(c)
                THEN ret("TK_NUM", L.line, L.col, ScanDigits(src, L))
                ELSE IF c = DQ
                THEN string[L.line, L.col, ScanString(src, lx_get(src, L))]
                ELSE IF m.n = 3 THEN ret(m.kind, L.line, L.col, Get3(src, L))
                ELSE IF m.n = 2 THEN ret(m.kind, L.line, L.col, Get2(src, L))
                ELSE IF c \in OneCharTokens
                THEN ret(c, L.line, L.col, lx_get(src, L))
                ELSE err(lx_get(src, L), "ERR_EXPR_SYNTAX")
        skipped[s \in ScanResults] ==
            IF s.fatal # "" THEN err(s.L, s.fatal) ELSE token[s.L]
    IN  skipped[lx_skip_ws_and_comments(src, L0)]

LxInit ==
    /\ lxStatus = "start"
    /\ lxSrc = <<>>
    /\ lxL = [i |-> 0, line |-> 1, col |-> 1]
    /\ lxTok = mk_tok("TK_EOF", 1, 1)

\* main.c compile_b_to_c: read_file_all and the set-up of the Lexer.
ReadSource ==
    /\ lxStatus = "start"
    /\ lxSrc' \in Sources
    /\ lxL' = [i |-> 0, line |-> 1, col |-> 1]
    /\ lxTok' = mk_tok("TK_EOF", 1, 1)
    /\ lxStatus' = "running"
    /\ UNCHANGED notLx

\* One call of lx_next.
LexNext ==
    /\ lxStatus = "running"
    /\ \E r \in {lx_next(lxSrc, lxL)} :
           /\ lxL' = r.L
           /\ IF r.fatal # ""
              THEN /\ lxStatus' = r.fatal
                   /\ UNCHANGED lxTok
              ELSE /\ lxTok' = r.tok
                   /\ lxStatus' = IF r.tok.kind = "TK_EOF" THEN "eof" ELSE "running"
    /\ UNCHANGED lxSrc
    /\ UNCHANGED notLx

LxNext == ReadSource \/ LexNext

-----------------------------------------------------------------------------
(***************************************************************************)
(* Arena.                                                                  *)
(*                                                                         *)
(* A chunk is known by the number of the malloc call that returned it;     *)
(* its record keeps its fields, whether it is allocated, and how often     *)
(* free has been called on it.                                             *)
(***************************************************************************)
ARENA_CHUNK_SIZE == 65536

ChunkIds == 1..MaxChunks

\* The sizes asked of arena_alloc: small ones, one that fits a chunk once
\* but not twice, and one larger than a chunk.
AllocSizes == {1, 24, 40000, 70000}

\* arena_alloc: the size rounded up to sizeof(void*).
AlignUp(size) == ((size + W - 1) \div W) * W

NoChunk == [next |-> 0, used |-> 0, cap |-> 0, state |-> "none", frees |-> 0]

NoMark == [held |-> FALSE, chunk |-> 0, used |-> 0]

NoArena == [first |-> 0, current |-> 0, chunks |-> [c \in ChunkIds |-> NoChunk]]

\* arena.c arena_new_chunk
arena_new_chunk(cap) ==
    [next |-> 0, used |-> 0, cap |-> cap, state |-> "live", frees |-> 0]

\* The address the next malloc returns.
FreshChunk(chunks) ==
    CHOOSE c \in ChunkIds :
        /\ chunks[c].state = "none"
        /\ \A d \in ChunkIds : chunks[d].state = "none" => c <= d

\* free(chunk)
FreeChunk(chunk) == [chunk EXCEPT !.state = "freed", !.frees = @ + 1]

\* The chunks on the list that starts at chunk `from`.
RECURSIVE ChunkList(_, _)
ChunkList(chunks, from) ==
    IF from = 0 THEN <<>>
    ELSE <<from>> \o ChunkList(chunks, chunks[from].next)

InList(list, c) == \E k \in 1..Len(list) : list[k] = c

\* arena_rewind, and a variant that leaves the used offset as it is.
RewoundUsedKept(chunk, mark) == chunk.used

RewoundUsed(chunk, mark) == mark.used

ArInit ==
    /\ arChunks = [c \in ChunkIds |-> NoChunk]
    /\ arFirst = 0
    /\ arCurrent = 0
    /\ arMark = NoMark
    /\ arAtMark = NoArena
    /\ arAllocs = 0
    /\ arLast = "arena_new"

\* arena.c arena_alloc
ArenaAlloc ==
    /\ arAllocs < MaxAllocs
    /\ \E request \in AllocSizes :
         LET size == AlignUp(request)
             full == arCurrent = 0 \/ arChunks[arCurrent].used + size > arChunks[arCurrent].cap
             cap  == IF size > ARENA_CHUNK_SIZE THEN size ELSE ARENA_CHUNK_SIZE
             c    == FreshChunk(arChunks)
             into  == IF full THEN c ELSE arCurrent
             linked == IF ~full THEN arChunks
                       ELSE IF arCurrent # 0
                       THEN [arChunks EXCEPT ![c] = arena_new_chunk(cap),
                                             ![arCurrent].next = c]
                       ELSE [arChunks EXCEPT ![c] = arena_new_chunk(cap)]
         IN  /\ full => \E d \in ChunkIds : arChunks[d].state = "none"
             /\ arChunks' = [linked EXCEPT ![into].used = @ + size]
             /\ arCurrent' = into
             /\ arFirst' = IF full /\ arCurrent = 0 THEN c ELSE arFirst
    /\ arAllocs' = arAllocs + 1
    /\ arLast' = "arena_alloc"
    /\ UNCHANGED <<arMark, arAtMark>>
    /\ UNCHANGED notAr

\* arena.c arena_mark
ArenaMark ==
    /\ ~arMark.held
    /\ arMark' = [held |-> TRUE, chunk |-> arCurrent,
                  used |-> IF arCurrent # 0 THEN arChunks[arCurrent].used ELSE 0]
    /\ arAtMark' = [first |-> arFirst, current |-> arCurrent, chunks |-> arChunks]
    /\ arLast' = "arena_mark"
    /\ UNCHANGED <<arChunks, arFirst, arCurrent, arAllocs>>
    /\ UNCHANGED notAr

\* arena.c arena_rewind
ArenaRewind ==
    /\ arMark.held
    /\ LET from  == IF arMark.chunk # 0 THEN arChunks[arMark.chunk].next ELSE arFirst
           later == ChunkList(arChunks, from)
           freed == [c \in ChunkIds |->
                        IF InList(later, c) THEN FreeChunk(arChunks[c]) ELSE arChunks[c]]
       IN  IF arMark.chunk # 0
           THEN /\ arChunks' = [freed EXCEPT
                                  ![arMark.chunk].next = 0,
                                  ![arMark.chunk].used =
                                      RewoundUsed(arChunks[arMark.chunk], arMark)]
                /\ arCurrent' = arMark.chunk
                /\ UNCHANGED arFirst
           ELSE /\ arChunks' = freed
                /\ arFirst' = 0
                /\ arCurrent' = 0
    /\ arMark' = NoMark
    /\ arLast' = "arena_rewind"
    /\ UNCHANGED <<arAtMark, arAllocs>>
    /\ UNCHANGED notAr

\* arena.c arena_reset, by a caller that holds no mark
ArenaReset ==
    /\ ~arMark.held
    /\ arFirst # 0
    /\ LET all == ChunkList(arChunks, arFirst)
       IN  arChunks' = [c \in ChunkIds |->
                           IF InList(all, c) THEN FreeChunk(arChunks[c]) ELSE arChunks[c]]
    /\ arFirst' = 0
    /\ arCurrent' = 0
    /\ arLast' = "arena_reset"
    /\ UNCHANGED <<arMark, arAtMark, arAllocs>>
    /\ UNCHANGED notAr

ArNext == ArenaAlloc \/ ArenaMark \/ ArenaRewind \/ ArenaReset

-----------------------------------------------------------------------------
(***************************************************************************)
(* Driver.                                                                 *)
(*                                                                         *)
(* The multi-file path of main: every input goes through compile_b_to_c,   *)
(* then the downstream C compiler runs on all the C files.  The modes      *)
(* that write no C file for the downstream compiler (-S, --asm, -E, the    *)
(* --dump flags) are not modelled.                                         *)
(***************************************************************************)
\* What compile_b_to_c runs into on an input file: nothing, or a fatal
\* error of the lexer, the parser or the semantic check (error_at_location
\* and dief end in exit(1)).
FileKinds == {"ok", "lex", "parse", "sem"}

KeepFlags == {"none", "keep-c", "emit-c"}

\* The options of a command line: all known and complete, or one of -o, -l
\* and -X as the last argument, or an argument that starts with `-` and is
\* no option.
OptionForms == {"ok", "missing value", "unknown option"}

RECURSIVE InputSeqs(_)
InputSeqs(n) ==
    IF n = 0 THEN {<<>>}
    ELSE LET shorter == InputSeqs(n - 1)
         IN  shorter \cup {Append(s, k) : s \in {t \in shorter : Len(t) = n - 1},
                                         k \in FileKinds}

\* How the child process of run_gcc_multi may end: with an exit status
\* (127 when execvp fails), or killed by a signal.
GccStatuses == {0, 1, 2, 4, 127}

GccOutcomes ==
    [exited : {TRUE}, status : GccStatuses] \cup {[exited |-> FALSE, status |-> 0]}

NotRun == [exited |-> FALSE, status |-> -1]

\* main.c run_gcc_multi: WEXITSTATUS of a child that exited, 1 otherwise;
\* and a variant that reports success however the child ended.
run_gcc_multi_ignored(outcome) == 0

run_gcc_multi(outcome) == IF outcome.exited THEN outcome.status ELSE 1

\* The C file of input i: a mkstemp file renamed to .c, or with --emit-c
\* the input path with .c added.
CFile(i, keep) == [input |-> i, temp |-> keep # "emit-c"]

\* --emit-c implies --keep-c
keep_c(keep) == keep \in {"keep-c", "emit-c"}

DrInit ==
    /\ drPc = "start"
    /\ drOptions = "ok"
    /\ drKeep = "none"
    /\ drInputs = <<>>
    /\ drCfiles = <<>>
    /\ drDisk = {}
    /\ drGcc = NotRun
    /\ drExit = -1

\* main: the command line.  An option without its value and an unknown
\* option end in dief; without an input file, the usage text and status 2.
ParseArgs ==
    /\ drPc = "start"
    /\ drOptions' \in OptionForms
    /\ drKeep' \in KeepFlags
    /\ drInputs' \in InputSeqs(MaxInputs)
    /\ IF drOptions' # "ok"
       THEN drPc' = "exited" /\ drExit' = 1
       ELSE IF drInputs' = <<>>
       THEN drPc' = "exited" /\ drExit' = 2
       ELSE drPc' = "compile" /\ drExit' = -1
    /\ UNCHANGED <<drCfiles, drDisk, drGcc>>
    /\ UNCHANGED notDr

\* main: one turn of the loop over in_paths, with compile_b_to_c.
CompileInput ==
    /\ drPc = "compile"
    /\ Len(drCfiles) < Len(drInputs)
    /\ LET i == Len(drCfiles) + 1
       IN  IF drInputs[i] # "ok"
           THEN /\ drPc' = "exited"
                /\ drExit' = 1
                /\ UNCHANGED <<drCfiles, drDisk>>
           ELSE /\ drDisk' = drDisk \cup {CFile(i, drKeep)}
                /\ drCfiles' = Append(drCfiles, i)
                /\ UNCHANGED <<drPc, drExit>>
    /\ UNCHANGED <<drOptions, drKeep, drInputs, drGcc>>
    /\ UNCHANGED notDr

\* main: run_gcc_multi on the C files, and the rest of main.
LinkAndExit ==
    /\ drPc = "compile"
    /\ Len(drCfiles) = Len(drInputs)
    /\ \E outcome \in GccOutcomes :
         LET rc == run_gcc_multi(outcome)
         IN  /\ drGcc' = outcome
             /\ IF rc # 0
                THEN /\ drExit' = 1
                     /\ UNCHANGED drDisk
                ELSE /\ drExit' = 0
                     /\ drDisk' = IF keep_c(drKeep) THEN drDisk
                                  ELSE drDisk \ {CFile(drCfiles[k], drKeep) :
                                                    k \in 1..Len(drCfiles)}
    /\ drPc' = "exited"
    /\ UNCHANGED <<drOptions, drKeep, drInputs, drCfiles>>
    /\ UNCHANGED notDr

DrNext == ParseArgs \/ CompileInput \/ LinkAndExit

-----------------------------------------------------------------------------
(***************************************************************************)
(* Switch bodies.                                                          *)
(*                                                                         *)
(* A statement is a record of its kind, the name of a label, and its       *)
(* sub-statements.  A node is known by its path from the root, which       *)
(* stands for its address.  The text of a label is a record: CaseLabel     *)
(* for `__bsw<sid>_case<i>`, and a record of kind "user" for the name L.   *)
(***************************************************************************)
Stmt(kind, name, kids) == [kind |-> kind, name |-> name, kids |-> kids]

NoName == [kind |-> "none", sid |-> 0, idx |-> 0]

\* The names of the labels in the source: `L`, and `__bsw1_case0`, which
\* lx_next takes for an identifier like any other.
LabelNames == {[kind |-> "user", sid |-> 0, idx |-> 0], CaseLabel(1, 0)}

\* The statements of exactly n nodes.
RECURSIVE StmtsOfSize(_)
StmtsOfSize(n) ==
    IF n = 1
    THEN {Stmt("ST_CASE", NoName, <<>>), Stmt("ST_EXPR", NoName, <<>>),
          Stmt("ST_BLOCK", NoName, <<>>)}
    ELSE LET one == StmtsOfSize(n - 1)
             two == UNION {{<<a, b>> : a \in StmtsOfSize(k),
                                      b \in StmtsOfSize(n - 1 - k)} :
                           k \in 1..(n - 2)}
         IN  {Stmt(kind, NoName, <<s>>) :
                  kind \in {"ST_BLOCK", "ST_IF", "ST_WHILE", "ST_SWITCH"}, s \in one}
             \cup {Stmt("ST_LABEL", name, <<s>>) : name \in LabelNames, s \in one}
             \cup {Stmt(kind, NoName, p) : kind \in {"ST_BLOCK", "ST_IF"}, p \in two}

\* The switch statements of up to MaxStmtNodes nodes.
SwitchStmts ==
    UNION {{Stmt("ST_SWITCH", NoName, <<s>>) : s \in StmtsOfSize(n)} :
           n \in 1..(MaxStmtNodes - 1)}

NoStmt == Stmt("none", NoName, <<>>)

\* emitter.c collect_cases, and its loops over the sub-statements.
RECURSIVE collect_cases(_, _)
RECURSIVE CollectFrom(_, _, _)
CollectFrom(s, path, k) ==
    IF k > Len(s.kids) THEN <<>>
    ELSE collect_cases(s.kids[k], Append(path, k)) \o CollectFrom(s, path, k + 1)

collect_cases(s, path) ==
    IF s.kind = "ST_SWITCH" THEN <<>>
    ELSE IF s.kind = "ST_CASE" THEN <<path>>
    ELSE IF s.kind \in {"ST_LABEL", "ST_BLOCK", "ST_IF", "ST_WHILE"}
    THEN CollectFrom(s, path, 1)
    ELSE <<>>

\* emitter.c lookup_case_label: the index of the node in the case maps.
lookup_case_label(cases, path) ==
    CHOOSE i \in 1..Len(cases) : cases[i] = path

\* What emit_switch and emit_stmt_switchctx write and count.
Emitted(out, id, switches) == [out |-> out, id |-> id, switches |-> switches]

LabelDef(text) == [op |-> "label", text |-> text]

DispatchJump(text) == [op |-> "goto", text |-> text]

\* emitter.c emit_switch and emit_stmt_switchctx.  `id` is g_switch_id.
RECURSIVE emit_switch(_, _, _)
RECURSIVE emit_stmt_switchctx(_, _, _, _, _)
RECURSIVE EmitFrom(_, _, _, _, _, _)
EmitFrom(s, path, k, sid, cases, id) ==
    IF k > Len(s.kids) THEN Emitted(<<>>, id, <<>>)
    ELSE LET first == emit_stmt_switchctx(s.kids[k], Append(path, k), sid, cases, id)
             rest  == EmitFrom(s, path, k + 1, sid, cases, first.id)
         IN  Emitted(first.out \o rest.out, rest.id, first.switches \o rest.switches)

emit_stmt_switchctx(s, path, sid, cases, id) ==
    IF s.kind = "ST_CASE"
    THEN Emitted(<<LabelDef(CaseLabel(sid, lookup_case_label(cases, path) - 1))>>,
                 id, <<>>)
    ELSE IF s.kind = "ST_LABEL"
    THEN LET r == EmitFrom(s, path, 1, sid, cases, id)
         IN  Emitted(<<LabelDef(s.name)>> \o r.out, r.id, r.switches)
    ELSE IF s.kind \in {"ST_BLOCK", "ST_IF", "ST_WHILE"}
    THEN EmitFrom(s, path, 1, sid, cases, id)
    ELSE IF s.kind = "ST_SWITCH" THEN emit_switch(s, path, id)
    ELSE Emitted(<<>>, id, <<>>)

emit_switch(s, path, id) ==
    LET sid   == id + 1
        cases == collect_cases(s.kids[1], Append(path, 1))
        body  == emit_stmt_switchctx(s.kids[1], Append(path, 1), sid, cases, sid)
        jumps == [i \in 1..Len(cases) |-> DispatchJump(CaseLabel(sid, i - 1))]
    IN  Emitted(body.out \o jumps, body.id,
                <<[at |-> path, sid |-> sid, cases |-> cases]>> \o body.switches)

StInit ==
    /\ stPc = "parse"
    /\ stBody = NoStmt
    /\ stSwitchId = 0
    /\ stOut = <<>>
    /\ stSwitches = <<>>
    /\ stUsed = {}
    /\ stCount = 0

\* parser.c parse_switch: the next switch statement of the source.
ParseSwitchStmtTree ==
    /\ stPc = "parse"
    /\ stCount < MaxSwitches
    /\ stBody' \in SwitchStmts
    /\ stPc' = "emit"
    /\ UNCHANGED <<stSwitchId, stOut, stSwitches, stUsed, stCount>>
    /\ UNCHANGED notSt

\* emitter.c emit_stmt on the ST_SWITCH statement.
EmitSwitchStmt ==
    /\ stPc = "emit"
    /\ \E r \in {emit_switch(stBody, <<>>, stSwitchId)} :
          /\ stOut' = r.out
          /\ stSwitches' = r.switches
          /\ stSwitchId' = r.id
    /\ stPc' = "emitted"
    /\ stCount' = stCount + 1
    /\ UNCHANGED <<stBody, stUsed>>
    /\ UNCHANGED notSt

\* emitter.c emit_stmt returns, and the emitter goes on to the next
\* statement.
EmitSwitchDone ==
    /\ stPc = "emitted"
    /\ stUsed' = stUsed \cup {stSwitches[k].sid : k \in 1..Len(stSwitches)}
    /\ stBody' = NoStmt
    /\ stOut' = <<>>
    /\ stSwitches' = <<>>
    /\ stPc' = "parse"
    /\ UNCHANGED <<stSwitchId, stCount>>
    /\ UNCHANGED notSt

StNext == ParseSwitchStmtTree \/ EmitSwitchStmt \/ EmitSwitchDone

-----------------------------------------------------------------------------
(***************************************************************************)
(* One-token lookahead of the parser.                                      *)
(***************************************************************************)

\* lx_next, strings: the number of characters stored in buf from the byte at
\* index i on, an escape giving one character.
RECURSIVE StringChars(_, _)
StringChars(src, i) ==
    IF i > Len(src) \/ src[i] = DQ THEN 0
    ELSE IF src[i] = "*" THEN 1 + StringChars(src, i + 2)
    ELSE 1 + StringChars(src, i + 1)

\* lx_next: the bytes of the lexeme of the token returned, with its NUL;
\* 0 for a token without a lexeme (lexeme = NULL).
LexemeBytes(src, L0, r) ==
    LET start == lx_skip_ws_and_comments(src, L0).L
    IN  IF r.fatal # "" THEN 0
        ELSE IF r.tok.kind = "TK_ID" THEN (r.L.i - start.i) + 1
        ELSE IF r.tok.kind = "TK_STR" THEN StringChars(src, start.i + 2) + 1
        ELSE 0

\* lexer.c lx_next under a given g_compilation_arena: the Lexer after the
\* call, the token with its lexeme, who owns the lexeme, and the size of the
\* allocation made in the arena (0 for none).
lx_next_lexeme(arena, src, L0) ==
    LET r == lx_next(src, L0)
        n == LexemeBytes(src, L0, r)
    IN  [L |-> r.L, fatal |-> r.fatal,
         tok |-> [kind |-> r.tok.kind, line |-> r.tok.line, col |-> r.tok.col,
                  lexeme |-> n,
                  owns_lexeme |-> IF n # 0 /\ arena = "NULL" THEN 1 ELSE 0],
         arena_alloc |-> IF n # 0 /\ arena # "NULL" THEN n ELSE 0]

\* lexer.c tok_free: the number of live malloc'd lexemes after the call.
tok_free(t, heap) == IF t.lexeme # 0 /\ t.owns_lexeme = 1 THEN heap - 1 ELSE heap

\* The arena with one more allocation, if one was made.
ArenaAfter(arena, n) == IF n = 0 THEN arena ELSE Append(arena, n)

\* A peek_next_kind that leaves g_compilation_arena as it is.
peek_arena_kept(saved) == saved

\* parser.c peek_next_kind, `g_compilation_arena = NULL`.
peek_arena(saved) == "NULL"

\* main.c compile_b_to_c, `P.cur = mk_tok(TK_EOF, 1, 1, in_path)`.
FirstCur == [kind |-> "TK_EOF", line |-> 1, col |-> 1, lexeme |-> 0, owns_lexeme |-> 0]

NoPeek == [returned |-> FALSE, kind |-> "none", L |-> [i |-> 0, line |-> 1, col |-> 1],
           cur |-> FirstCur, arena_ptr |-> "NULL", arena |-> <<>>, heap |-> 0]

PkInit ==
    /\ pkStatus = "start"
    /\ pkSrc = <<>>
    /\ pkL = [i |-> 0, line |-> 1, col |-> 1]
    /\ pkCur = FirstCur
    /\ g_compilation_arena = "NULL"
    /\ pkArena = <<>>
    /\ pkHeap = 0
    /\ pkLast = NoPeek

\* main.c main and compile_b_to_c: arena_new, read_file_all and the set-up
\* of the Parser, up to the first call of next.
ParserStart ==
    /\ pkStatus = "start"
    /\ pkSrc' \in Sources
    /\ pkL' = [i |-> 0, line |-> 1, col |-> 1]
    /\ pkCur' = FirstCur
    /\ g_compilation_arena' = "arena"
    /\ pkStatus' = "running"
    /\ UNCHANGED <<pkArena, pkHeap, pkLast>>
    /\ UNCHANGED notPk

\* parser.c next: tok_free of the current token, then lx_next.
ParserNext ==
    /\ pkStatus = "running"
    /\ \E r \in {lx_next_lexeme(g_compilation_arena, pkSrc, pkL)} :
           /\ pkL' = r.L
           /\ pkArena' = ArenaAfter(pkArena, r.arena_alloc)
           /\ pkHeap' = tok_free(pkCur, pkHeap) + r.tok.owns_lexeme
           /\ IF r.fatal # ""
              THEN /\ pkStatus' = r.fatal
                   /\ UNCHANGED pkCur
              ELSE /\ pkCur' = r.tok
                   /\ pkStatus' = IF r.tok.kind = "TK_EOF" THEN "eof" ELSE "running"
    /\ pkLast' = NoPeek
    /\ UNCHANGED <<pkSrc, g_compilation_arena>>
    /\ UNCHANGED notPk

\* parser.c peek_next_kind: lx_next on a copy of the Lexer with
\* g_compilation_arena set to NULL, tok_free of the token, and
\* g_compilation_arena set back.  A lexical error ends the process inside
\* lx_next.
PeekNextKind ==
    /\ pkStatus = "running"
    /\ LET saved == g_compilation_arena
           r     == lx_next_lexeme(peek_arena(saved), pkSrc, pkL)
       IN  /\ pkArena' = ArenaAfter(pkArena, r.arena_alloc)
           /\ IF r.fatal # ""
              THEN /\ pkStatus' = r.fatal
                   /\ g_compilation_arena' = peek_arena(saved)
                   /\ UNCHANGED <<pkHeap, pkLast>>
              ELSE /\ pkHeap' = tok_free(r.tok, pkHeap + r.tok.owns_lexeme)
                   /\ g_compilation_arena' = saved
                   /\ pkLast' = [returned |-> TRUE, kind |-> r.tok.kind, L |-> pkL,
                                 cur |-> pkCur, arena_ptr |-> g_compilation_arena,
                                 arena |-> pkArena, heap |-> pkHeap]
                   /\ UNCHANGED pkStatus
    /\ UNCHANGED <<pkSrc, pkL, pkCur>>
    /\ UNCHANGED notPk

PkNext == ParserStart \/ ParserNext \/ PeekNextKind

-----------------------------------------------------------------------------
(***************************************************************************)
(* Arena marks held by a caller.                                           *)
(***************************************************************************)

MkInit ==
    /\ mkStatus = "running"
    /\ mkChunks = [c \in ChunkIds |-> NoChunk]
    /\ mkFirst = 0
    /\ mkCurrent = 0
    /\ mkMarks = <<>>
    /\ mkAllocs = 0
    /\ mkTouched = {}

\* arena.c arena_alloc
MkArenaAlloc ==
    /\ mkStatus = "running"
    /\ mkAllocs < MaxAllocs
    /\ \E request \in AllocSizes :
         LET size == AlignUp(request)
             full == mkCurrent = 0 \/ mkChunks[mkCurrent].used + size > mkChunks[mkCurrent].cap
             cap  == IF size > ARENA_CHUNK_SIZE THEN size ELSE ARENA_CHUNK_SIZE
             c    == FreshChunk(mkChunks)
             into == IF full THEN c ELSE mkCurrent
             linked == IF ~full THEN mkChunks
                       ELSE IF mkCurrent # 0
                       THEN [mkChunks EXCEPT ![c] = arena_new_chunk(cap),
                                             ![mkCurrent].next = c]
                       ELSE [mkChunks EXCEPT ![c] = arena_new_chunk(cap)]
         IN  /\ full => \E d \in ChunkIds : mkChunks[d].state = "none"
             /\ mkChunks' = [linked EXCEPT ![into].used = @ + size]
             /\ mkCurrent' = into
             /\ mkFirst' = IF full /\ mkCurrent = 0 THEN c ELSE mkFirst
    /\ mkAllocs' = mkAllocs + 1
    /\ mkTouched' = {}
    /\ UNCHANGED <<mkStatus, mkMarks>>
    /\ UNCHANGED notMk

\* arena.c arena_mark; the caller keeps the mark.
MkArenaMark ==
    /\ mkStatus = "running"
    /\ Len(mkMarks) < MaxMarks
    /\ mkMarks' = Append(mkMarks,
                         [chunk |-> mkCurrent,
                          used |-> IF mkCurrent # 0 THEN mkChunks[mkCurrent].used ELSE 0])
    /\ mkTouched' = {}
    /\ UNCHANGED <<mkStatus, mkChunks, mkFirst, mkCurrent, mkAllocs>>
    /\ UNCHANGED notMk

\* arena.c arena_rewind to any of the marks returned so far.  When the
\* marked chunk has been freed, `mark.chunk->next` reads freed memory and
\* the behaviour is undefined from there on.
MkArenaRewind ==
    /\ mkStatus = "running"
    /\ \E k \in 1..Len(mkMarks) :
         LET mark == mkMarks[k] IN
         IF mark.chunk # 0 /\ mkChunks[mark.chunk].state = "freed"
         THEN /\ mkTouched' = {mark.chunk}
              /\ mkStatus' = "undefined"
              /\ UNCHANGED <<mkChunks, mkFirst, mkCurrent>>
         ELSE LET from  == IF mark.chunk # 0 THEN mkChunks[mark.chunk].next ELSE mkFirst
                  later == ChunkList(mkChunks, from)
                  freed == [c \in ChunkIds |->
                               IF InList(later, c) THEN FreeChunk(mkChunks[c])
                               ELSE mkChunks[c]]
              IN  /\ mkTouched' = {c \in ChunkIds :
                                      InList(later, c) /\ mkChunks[c].state = "freed"}
                  /\ UNCHANGED mkStatus
                  /\ IF mark.chunk # 0
                     THEN /\ mkChunks' = [freed EXCEPT ![mark.chunk].next = 0,
                                                       ![mark.chunk].used = mark.used]
                          /\ mkCurrent' = mark.chunk
                          /\ UNCHANGED mkFirst
                     ELSE /\ mkChunks' = freed
                          /\ mkFirst' = 0
                          /\ mkCurrent' = 0
    /\ UNCHANGED <<mkMarks, mkAllocs>>
    /\ UNCHANGED notMk

MkNext == MkArenaAlloc \/ MkArenaMark \/ MkArenaRewind

-----------------------------------------------------------------------------
(***************************************************************************)
(* Compound assignment at run time.                                        *)
(*                                                                         *)
(* The widths are scaled down so that every word is a number the checker   *)
(* can hold: `word` (intptr_t) is HostBits wide and the emulated word of   *)
(* the wrapping mode is WrapBits wide.                                     *)
(***************************************************************************)

\* The width of intptr_t, and the WORD_BITS of the wrapping mode.
HostBits == 8

WrapBits == 4

RECURSIVE Pow2(_)
Pow2(n) == IF n = 0 THEN 1 ELSE 2 * Pow2(n - 1)

MinWord == -Pow2(HostBits - 1)

MaxWord == Pow2(HostBits - 1) - 1

Words == MinWord..MaxWord

\* (uword)x and (word)u: conversion between intptr_t and uintptr_t.
ToUword(x) == x % Pow2(HostBits)

ToWord(u) ==
    LET m == u % Pow2(HostBits)
    IN  IF m >= Pow2(HostBits - 1) THEN m - Pow2(HostBits) ELSE m

\* emitter.c WORD_MASK and SHIFT_MASK.
WORD_MASK(bits) == IF bits = 0 THEN Pow2(HostBits) - 1 ELSE Pow2(bits) - 1

SHIFT_MASK(bits) == IF bits = 0 THEN HostBits - 1 ELSE bits - 1

\* emitter.c WVAL on a uword, as a word: `(x)` at the host width, else the
\* low bits sign-extended.
WVAL(u, bits) ==
    IF bits = 0 THEN ToWord(u)
    ELSE LET m == BitAnd(u % Pow2(HostBits), WORD_MASK(bits))
         IN  IF m >= Pow2(bits - 1) THEN m - Pow2(bits) ELSE m

\* The value of an expression, or undefined behaviour.
Defined(v) == [undef |-> FALSE, val |-> v]

Undefined == [undef |-> TRUE, val |-> 0]

\* emitter.c WADD .. WOR, by the operator of the assignment.
WMacro(op, a, b, bits) ==
    LET ua == ToUword(a)
        ub == ToUword(b)
        n  == BitAnd(ub, SHIFT_MASK(bits))
    IN  CASE op = "TK_PLUSEQ" -> Defined(WVAL(ua + ub, bits))
          [] op = "TK_MINUSEQ" -> Defined(WVAL(ua - ub, bits))
          [] op = "TK_STAREQ" -> Defined(WVAL(ua * ub, bits))
          [] op = "TK_SLASHEQ" -> Defined(WVAL(ua \div ub, bits))
          [] op = "TK_PERCENTEQ" -> Defined(WVAL(ua % ub, bits))
          [] op = "TK_LSHIFTEQ" ->
                Defined(WVAL(BitAnd(ua, WORD_MASK(bits)) * Pow2(n), bits))
          [] op = "TK_RSHIFTEQ" ->
                Defined(WVAL(BitAnd(ua, WORD_MASK(bits)) \div Pow2(n), bits))
          [] op = "TK_ANDEQ" -> Defined(WVAL(BitAnd(ua, ub), bits))
          [] op = "TK_OREQ" -> Defined(WVAL(BitOr(ua, ub), bits))

\* libb.c b_add_assign .. b_or_assign: uword arithmetic under WVAL, the
\* shift count as it is.
LibbHelper(op, a, b, bits) ==
    LET ua == ToUword(a)
        ub == ToUword(b)
    IN  CASE op = "TK_PLUSEQ" -> Defined(WVAL(ua + ub, bits))
          [] op = "TK_MINUSEQ" -> Defined(WVAL(ua - ub, bits))
          [] op = "TK_STAREQ" -> Defined(WVAL(ua * ub, bits))
          [] op = "TK_SLASHEQ" -> Defined(WVAL(ua \div ub, bits))
          [] op = "TK_PERCENTEQ" -> Defined(WVAL(ua % ub, bits))
          [] op = "TK_LSHIFTEQ" ->
                IF ub >= HostBits THEN Undefined
                ELSE Defined(WVAL(ua * Pow2(ub), bits))
          [] op = "TK_RSHIFTEQ" ->
                IF ub >= HostBits THEN Undefined
                ELSE Defined(WVAL(ua \div Pow2(ub), bits))
          [] op = "TK_ANDEQ" -> Defined(WVAL(BitAnd(ua, ub), bits))
          [] op = "TK_OREQ" -> Defined(WVAL(BitOr(ua, ub), bits))

\* b_<op>_assign(&x, v): the static helpers emit_program_c writes
\* (`return (*p = WDIV(*p, v));`) or those of libb.c.
b_op_assign(lib, op, a, b, bits) ==
    IF lib = "inline" THEN WMacro(op, a, b, bits) ELSE LibbHelper(op, a, b, bits)

\* The C operator on signed words (emit_expr, EX_BINARY, at the host
\* width): overflow, a shift count out of range and a left shift of a
\* negative word are undefined; >> of a negative word shifts the sign in.
COperator(op, a, b) ==
    LET InRange(v) == IF v \in Words THEN Defined(v) ELSE Undefined
    IN  CASE op = "TK_PLUSEQ" -> InRange(a + b)
          [] op = "TK_MINUSEQ" -> InRange(a - b)
          [] op = "TK_STAREQ" -> InRange(a * b)
          [] op = "TK_SLASHEQ" -> InRange(CDiv(a, b))
          [] op = "TK_PERCENTEQ" ->
                IF a = MinWord /\ b = -1 THEN Undefined ELSE Defined(CMod(a, b))
          [] op = "TK_LSHIFTEQ" ->
                IF b < 0 \/ b >= HostBits \/ a < 0 THEN Undefined
                ELSE InRange(a * Pow2(b))
          [] op = "TK_RSHIFTEQ" ->
                IF b < 0 \/ b >= HostBits THEN Undefined
                ELSE Defined(a \div Pow2(b))
          [] op = "TK_ANDEQ" -> Defined(BitAnd(a, b))
          [] op = "TK_OREQ" -> Defined(BitOr(a, b))

\* emitter.c emit_expr, EX_BINARY: the W* macro when WORD_BITS is not 0,
\* the C operator otherwise.
BinaryLowering(op, a, b, bits) ==
    IF bits # 0 THEN WMacro(op, a, b, bits) ELSE COperator(op, a, b)

\* The words tried as the target's value and as the right operand.
WordOperands == {MinWord, -6, -1, 0, 1, 2, 6, WrapBits, HostBits, MaxWord}

NoWord == [undef |-> FALSE, ran |-> FALSE, val |-> 0]

Ran(r, v) == [undef |-> r.undef, ran |-> TRUE, val |-> v]

WdInit ==
    /\ wdPc = "start"
    /\ wdOp = "TK_PLUSEQ"
    /\ wdBits = 0
    /\ wdLib = "inline"
    /\ wdX = 0
    /\ wdV = 1
    /\ wdHelper = NoWord
    /\ wdBinary = NoWord

\* The program reaches `T =<op> v` with the target holding x.
ReachCompoundAssign ==
    /\ wdPc = "start"
    /\ wdOp' \in CompoundOps
    /\ wdBits' \in {0, WrapBits}
    /\ wdLib' \in {"inline", "libb"}
    /\ wdX' \in WordOperands
    /\ wdV' \in WordOperands
    /\ wdOp' \in {"TK_SLASHEQ", "TK_PERCENTEQ"} => wdV' # 0
    /\ wdPc' = "helper"
    /\ UNCHANGED <<wdHelper, wdBinary>>
    /\ UNCHANGED notWd

\* b_<op>_assign(&x, v) runs; where its behaviour is undefined it may store
\* any word, of which the operand words are tried.
RunHelper ==
    /\ wdPc = "helper"
    /\ LET r == b_op_assign(wdLib, wdOp, wdX, wdV, wdBits)
       IN  \E v \in (IF r.undef THEN WordOperands ELSE {r.val}) : wdHelper' = Ran(r, v)
    /\ wdPc' = "binary"
    /\ UNCHANGED <<wdOp, wdBits, wdLib, wdX, wdV, wdBinary>>
    /\ UNCHANGED notWd

\* The lowering of `x <op> v` is evaluated on the same operands; where its
\* behaviour is undefined it may have any value, of which the operand words
\* are tried.
RunBinary ==
    /\ wdPc = "binary"
    /\ LET r == BinaryLowering(wdOp, wdX, wdV, wdBits)
       IN  \E v \in (IF r.undef THEN WordOperands ELSE {r.val}) : wdBinary' = Ran(r, v)
    /\ wdPc' = "done"
    /\ UNCHANGED <<wdOp, wdBits, wdLib, wdX, wdV, wdHelper>>
    /\ UNCHANGED notWd

WdNext == ReachCompoundAssign \/ RunHelper \/ RunBinary

-----------------------------------------------------------------------------
(***************************************************************************)
(* C strings for the arguments of one call.                                *)
(***************************************************************************)

\* __b_cstr, `static char *slots[4]` and `next = (next + 1) & 3`.
CstrSlots == 4

\* The B strings passed: the null word, a short string, and a string that
\* does not fit the 64 bytes a slot starts with.
BStrings == {[text |-> "null", len |-> 0], [text |-> "short", len |-> 3],
             [text |-> "long", len |-> 100]}

\* The wrapped arguments of one call: the format string and the arguments
\* of its %s conversions.
RECURSIVE WrappedArgs(_)
WrappedArgs(n) ==
    IF n = 0 THEN {<<>>}
    ELSE LET shorter == WrappedArgs(n - 1)
         IN  shorter \cup {Append(a, s) : a \in {t \in shorter : Len(t) = n - 1},
                                         s \in BStrings}

\* A slot without a buffer (slots[idx] = NULL), and no pointer.
NoBuffer == [addr |-> 0, text |-> "", arg |-> 0]

NoPtr == [slot |-> -1, addr |-> 0, text |-> ""]

\* The static "" that __b_cstr returns for the null word.
EmptyLiteral == [slot |-> -1, addr |-> -1, text |-> ""]

\* __b_cstr, `next = (next + 1) & 3`.
SlotAfter(idx) == (idx + 1) % CstrSlots

\* The arguments not yet converted, and the one converted next.
Unconverted == {i \in 1..Len(csArgs) : csPtrs[i] = NoPtr}

NextArg ==
    IF csOrder = "left to right"
    THEN CHOOSE i \in Unconverted : \A j \in Unconverted : i <= j
    ELSE CHOOSE i \in Unconverted : \A j \in Unconverted : i >= j

\* The copy made for argument i is where it was and is still the copy of
\* that argument.
Intact(i) ==
    LET p == csPtrs[i]
    IN  \/ p = NoPtr
        \/ p = EmptyLiteral
        \/ /\ cstrSlots[p.slot].addr = p.addr
           /\ cstrSlots[p.slot].arg = i
           /\ cstrSlots[p.slot].text = p.text

CsInit ==
    /\ csPc = "idle"
    /\ csArgs = <<>>
    /\ csOrder = "left to right"
    /\ cstrSlots = [k \in 0..(CstrSlots - 1) |-> NoBuffer]
    /\ cstrCaps = [k \in 0..(CstrSlots - 1) |-> 0]
    /\ cstrNext = 0
    /\ csPtrs = <<>>
    /\ csHeap = 0
    /\ csCalls = 0

\* The program reaches a call of fprintf, dprintf, sprintf or snprintf
\* whose format string and %s arguments emit_expr wrapped in __b_cstr.
ReachWrappedCall ==
    /\ csPc = "idle"
    /\ csCalls < MaxCalls
    /\ csArgs' \in (WrappedArgs(MaxWrapped) \ {<<>>})
    /\ csOrder' \in {"left to right", "right to left"}
    /\ csPtrs' = [i \in 1..Len(csArgs') |-> NoPtr]
    /\ csPc' = "args"
    /\ UNCHANGED <<cstrSlots, cstrCaps, cstrNext, csHeap, csCalls>>
    /\ UNCHANGED notCs

\* libb.c __b_cstr on the next argument.  realloc may grow the buffer in
\* place or move it.
ConvertArg ==
    /\ csPc = "args"
    /\ Unconverted # {}
    /\ LET i    == NextArg
           s    == csArgs[i]
           idx  == cstrNext
           need == s.len + 1
       IN  IF s.text = "null"
           THEN /\ csPtrs' = [csPtrs EXCEPT ![i] = EmptyLiteral]
                /\ UNCHANGED <<cstrSlots, cstrCaps, cstrNext, csHeap>>
           ELSE /\ cstrNext' = SlotAfter(idx)
                /\ IF need > cstrCaps[idx]
                   THEN /\ cstrCaps' = [cstrCaps EXCEPT ![idx] =
                                           IF need < 64 THEN 64 ELSE need]
                        /\ \E addr \in {cstrSlots[idx].addr, csHeap + 1} \ {0} :
                              /\ cstrSlots' = [cstrSlots EXCEPT ![idx] =
                                                  [addr |-> addr, text |-> s.text,
                                                   arg |-> i]]
                              /\ csPtrs' = [csPtrs EXCEPT ![i] =
                                               [slot |-> idx, addr |-> addr,
                                                text |-> s.text]]
                        /\ csHeap' = csHeap + 1
                   ELSE /\ cstrSlots' = [cstrSlots EXCEPT ![idx].text = s.text,
                                                         ![idx].arg = i]
                        /\ csPtrs' = [csPtrs EXCEPT ![i] =
                                         [slot |-> idx, addr |-> cstrSlots[idx].addr,
                                          text |-> s.text]]
                        /\ UNCHANGED <<cstrCaps, csHeap>>
    /\ UNCHANGED <<csPc, csArgs, csOrder, csCalls>>
    /\ UNCHANGED notCs

\* The call is made with the pointers returned, and returns.
MakeCall ==
    /\ csPc = "args"
    /\ Unconverted = {}
    /\ csPc' = "idle"
    /\ csArgs' = <<>>
    /\ csPtrs' = <<>>
    /\ csCalls' = csCalls + 1
    /\ UNCHANGED <<csOrder, cstrSlots, cstrCaps, cstrNext, csHeap>>
    /\ UNCHANGED notCs

CsNext == ReachWrappedCall \/ ConvertArg \/ MakeCall

-----------------------------------------------------------------------------
(***************************************************************************)
(* Specifications.                                                         *)
(***************************************************************************)
Init == SwInit /\ SemInit /\ FoldInit /\ ExtInit /\ MnInit /\ StrInit /\
        RmwInit /\ NestInit /\ LxInit /\ ArInit /\ DrInit /\ StInit /\
        PkInit /\ MkInit /\ WdInit /\ CsInit

SpecSem == Init /\ [][SemNext]_vars

SpecFold == Init /\ [][FoldNext]_vars

SpecExtern == Init /\ [][ExtNext]_vars

SpecSwitch == Init /\ [][SwNext]_vars

SpecCstr == Init /\ [][CsNext]_vars

SpecWord == Init /\ [][WdNext]_vars

SpecArenaMarks == Init /\ [][MkNext]_vars

SpecPeek == Init /\ [][PkNext]_vars

SpecSwitchTree == Init /\ [][StNext]_vars

SpecDriver == Init /\ [][DrNext]_vars

SpecArena == Init /\ [][ArNext]_vars

SpecLexer == Init /\ [][LxNext]_vars

\* The parser asks for the next token until it has the end of the file.
SpecLexerLive == Init /\ [][LxNext]_vars /\ WF_vars(LxNext)

SpecNest == Init /\ [][NestNext]_vars

SpecRmw == Init /\ [][RmwNext]_vars

SpecStrings == Init /\ [][StrNext]_vars

SpecMangle == Init /\ [][MnNext]_vars

-----------------------------------------------------------------------------
(***************************************************************************)
(* Properties of the switch lowering.                                      *)
(***************************************************************************)
\* C1: in a switch that has a `default:` label, a discriminant equal to none
\* of the `case` constants ends at the default label, and the default label
\* is taken only when no `case` constant equals the discriminant.
C1_DefaultTakenIffNoCaseMatches ==
    swPhase = "done" =>
        LET defaults == {i \in 1..Len(swBody) : swOrigin[i] = "default"}
            matched  == \E i \in 1..Len(swBody) :
                            swOrigin[i] = "case" /\ swBody[i].lo = swX
            atDefault == /\ swTarget.kind = "case"
                         /\ (swTarget.idx + 1) \in defaults
        IN  defaults # {} => (atDefault <=> ~matched)

-----------------------------------------------------------------------------
(***************************************************************************)
(* Properties of the semantic analysis.                                    *)
(***************************************************************************)

\* The names some scope of the chain holds.
InChain(sc, name) == \E i \in 1..Len(sc) : \E s \in sc[i] : s.name = name

\* C2: after sem_check_program has succeeded, the name of every Var node of
\* the program, those in the initializers of external definitions included,
\* resolved up the scope chain where the node stands, or is in the extrn set,
\* or is in the implicit-statics list.
C2_EveryVarAccountedFor ==
    semPc = "done" =>
        /\ \A n \in unresolved : is_extern_name(n) \/ is_implicit_static(n)
        /\ \A i \in 1..Len(tops0) :
              (tops0[i].kind = "TOP_EXTERN_DEF" /\ tops0[i].init # "") =>
                  \/ InChain(scopes, tops0[i].init)
                  \/ is_extern_name(tops0[i].init)
                  \/ is_implicit_static(tops0[i].init)

\* C3: the implicit-statics list never holds a name twice; and after
\* sem_check_program the Top items are those the parser built, unchanged and
\* in their order, followed by one scalar external definition without
\* initializer and with is_implicit_static set for each implicit static, in
\* the order of the list; none of these names has an external definition or
\* declaration among the Top items the parser built.
C3_ImplicitStaticsAppended ==
    LET n0 == Len(tops0)
        k  == Len(implicit_statics)
    IN  /\ \A i, j \in 1..k : implicit_statics[i] = implicit_statics[j] => i = j
        /\ semPc = "done" =>
              /\ Len(tops) = n0 + k
              /\ SubSeq(tops, 1, n0) = tops0
              /\ \A i \in 1..k :
                    tops[n0 + i] =
                        [kind |-> "TOP_EXTERN_DEF", name |-> implicit_statics[i],
                         params |-> <<>>, vkind |-> "EXTVAR_SCALAR", init |-> "",
                         is_implicit_static |-> 1]
              /\ \A i \in 1..k : \A j \in 1..n0 :
                    tops0[j].kind \in {"TOP_EXTERN_DEF", "TOP_EXTERN_DECL"}
                        => tops0[j].name # implicit_statics[i]

\* Two implicit statics were promoted behind the Top items of the parser.
C3_Witness ==
    /\ semPc = "done"
    /\ Len(implicit_statics) = 2
    /\ Len(tops0) >= 1
    /\ Len(tops) = Len(tops0) + 2

C5_DuplicateTopLevelIsRd ==
    (\E i, j \in 1..Len(tops0) : i < j /\ tops0[i].name = tops0[j].name) =>
        /\ semPc \in {"prepass", "exit"}
        /\ semPc = "exit" => semStatus = "rd"

\* C6: the visit of an auto declaration, in a function body or at top
\* level, ends the compilation with `rd` exactly when the innermost scope
\* already holds the name, and otherwise adds the name to the innermost scope
\* and leaves the enclosing scopes alone; the end of a block leaves the chain
\* as it was without its innermost scope, and a name that only that scope
\* held is no longer found.
C6_AutoRedeclarationInnermost ==
    [][ LET innermost == {s.name : s \in scopes[Len(scopes)]} IN
        /\ (semPc = "infunc" /\ cur'.kind = "ST_AUTO") =>
              /\ (semStatus' = "rd") <=> (cur'.name \in innermost)
              /\ cur'.name \notin innermost =>
                    /\ semPc' = "infunc"
                    /\ scopes' = [scopes EXCEPT ![Len(scopes)] =
                                      @ \cup {[kind |-> "SYM_VAR", name |-> cur'.name]}]
        /\ (semPc = "prepass" /\ semI <= Len(tops) /\ tops[semI].kind = "TOP_GAUTO") =>
              (semStatus' = "rd") <=> (tops[semI].name \in innermost)
        /\ (semPc = "infunc" /\ cur'.kind = "BLOCK_END") =>
              /\ scopes' = SubSeq(scopes, 1, Len(scopes) - 1)
              /\ \A n \in innermost :
                    ~InChain(SubSeq(scopes, 1, Len(scopes) - 1), n)
                        => scope_find(scopes', n) = NoSymbol ]_vars

\* An auto declaration of a name that a variable of an enclosing scope of
\* the same function already has was accepted.
C6_Witness ==
    /\ semPc = "infunc"
    /\ cur.kind = "ST_AUTO"
    /\ \E s \in scopes[Len(scopes)] : s.name = cur.name /\ s.kind = "SYM_VAR"
    /\ \E i \in 2..(Len(scopes) - 1) :
          \E s \in scopes[i] : s.name = cur.name /\ s.kind = "SYM_VAR"

\* C7: a call of a name of the seed list of runtime-library names, in a
\* file that does not declare the name, does not end the compilation with
\* `un`.
C7_SeedListCallsResolve ==
    LET seed == {"print", "putchar", "getchar", "printf", "open", "close",
                 "read", "write", "fork", "wait", "execl", "execv", "stat",
                 "fstat", "chmod", "chown", "link", "unlink", "time", "ctime",
                 "getuid", "setuid", "makdir", "intr", "chdir", "char", "lchar",
                 "getchr", "putchr", "getstr", "putstr", "flush", "reread",
                 "printn", "putnum", "exit", "abort", "free", "alloc", "system",
                 "callf", "argc", "argv", "gtty", "stty", "usleep"}
    IN  (cur.kind = "EX_CALL" /\ cur.name \in seed /\ cur.name \notin Names)
            => semStatus # "un"

-----------------------------------------------------------------------------
(***************************************************************************)
(* Properties of the constant folder.                                      *)
(***************************************************************************)

\* The emitted WVAL(x) for WORD_BITS == 16: x masked to 16 bits and
\* sign-extended.
WVAL16(x) == ((x + 32768) % 65536) - 32768

\* The value of an expression when every intermediate result is wrapped to
\* 16 bits; no value where the folder gives none by the shape of the
\* expression, or where a divisor is zero.
RECURSIVE EvalWord16(_)
EvalWord16(e) ==
    CASE e.kind = "EX_NUM" -> Folded(WVAL16(e.num))
      [] e.kind = "EX_UNARY" ->
            LET v == EvalWord16(e.args[1]) IN
            IF v.ret = 0 THEN NotFolded
            ELSE CASE e.op = "TK_MINUS" -> Folded(WVAL16(-v.out))
                   [] e.op = "TK_BANG"  -> Folded(CBool(v.out = 0))
                   [] OTHER -> NotFolded
      [] e.kind = "EX_BINARY" ->
            LET a == EvalWord16(e.args[1])
                b == EvalWord16(e.args[2])
            IN
            IF a.ret = 0 \/ b.ret = 0 THEN NotFolded
            ELSE CASE e.op = "TK_PLUS"    -> Folded(WVAL16(a.out + b.out))
                   [] e.op = "TK_MINUS"   -> Folded(WVAL16(a.out - b.out))
                   [] e.op = "TK_STAR"    -> Folded(WVAL16(a.out * b.out))
                   [] e.op = "TK_SLASH"   ->
                        IF b.out = 0 THEN NotFolded
                        ELSE Folded(WVAL16(CDiv(a.out, b.out)))
                   [] e.op = "TK_PERCENT" ->
                        IF b.out = 0 THEN NotFolded
                        ELSE Folded(WVAL16(CMod(a.out, b.out)))
                   [] e.op = "TK_LT"      -> Folded(CBool(a.out < b.out))
                   [] e.op = "TK_LE"      -> Folded(CBool(a.out <= b.out))
                   [] e.op = "TK_GT"      -> Folded(CBool(a.out > b.out))
                   [] e.op = "TK_GE"      -> Folded(CBool(a.out >= b.out))
                   [] e.op = "TK_EQ"      -> Folded(CBool(a.out = b.out))
                   [] e.op = "TK_NE"      -> Folded(CBool(a.out # b.out))
                   [] e.op = "TK_AMP"     -> Folded(WVAL16(BitAnd(a.out, b.out)))
                   [] e.op = "TK_BAR"     -> Folded(WVAL16(BitOr(a.out, b.out)))
                   [] e.op = "TK_BARBAR"  -> Folded(CBool(a.out # 0 \/ b.out # 0))
                   [] OTHER -> NotFolded
      [] e.kind = "EX_COMMA" ->
            LET l == EvalWord16(e.args[1]) IN
            IF l.ret = 0 THEN NotFolded ELSE EvalWord16(e.args[2])
      [] OTHER -> NotFolded

\* A division or modulo of the expression whose divisor folds to zero.
RECURSIVE DividesByZero(_)
DividesByZero(e) ==
    \/ /\ e.kind = "EX_BINARY"
       /\ e.op \in {"TK_SLASH", "TK_PERCENT"}
       /\ try_eval_const_expr(e.args[2]) = Folded(0)
    \/ \E i \in 1..Len(e.args) : DividesByZero(e.args[i])

\* C9, for the width 16: when the folder accepts an expression, the value
\* it gives is, modulo 2^16, the value of the expression with every
\* intermediate result wrapped to 16 bits; and it gives no value to an
\* expression in which a divisor folds to zero.
C9_FoldEqualsWord16Evaluation ==
    foldPc = "done" =>
        /\ foldRet = 1 =>
              /\ EvalWord16(foldStack[1]).ret = 1
              /\ foldOut % 65536 = EvalWord16(foldStack[1]).out % 65536
        /\ DividesByZero(foldStack[1]) => foldRet = 0

-----------------------------------------------------------------------------
(***************************************************************************)
(* Properties of the storage of external definitions.                      *)
(***************************************************************************)

\* C8: for a vector definition `name[bound]` whose bound the folder does
\* not fold, or folds to a negative value, no backing array is declared and
\* the compilation does not end without an error; with a bound that does not
\* fold it ends with `sx`.
C8_BadVectorBoundAborts ==
    LET r == try_eval_const_expr(extItem.bound) IN
    ( /\ extItem.vkind = "EXTVAR_VECTOR"
      /\ extItem.has_empty = 0
      /\ extItem.bound # NoExpr
      /\ (r.ret = 0 \/ r.out < 0) ) =>
        /\ extArray = NoArray
        /\ extStatus # "ok"
        /\ (r.ret = 0 /\ extPc = "done") => extStatus = "sx"

\* The paths, as sequences of element indices, to the lists of an
\* initializer tree, and the node at the end of a path.
RECURSIVE ListPaths(_)
ListPaths(in) ==
    IF in.kind # "INIT_LIST" THEN {}
    ELSE {<<>>} \cup UNION {{<<i>> \o q : q \in ListPaths(in.list[i])} : i \in 1..Len(in.list)}

RECURSIVE NodeAt(_, _)
NodeAt(in, path) == IF path = <<>> THEN in ELSE NodeAt(in.list[Head(path)], Tail(path))

\* The larger of a list's length and 1.
LenOrOne(list) == IF Len(list.list) > 1 THEN Len(list.list) ELSE 1

\* The sum of edge_words_total over the elements of `list` at the indices I.
RECURSIVE ChildWords(_, _)
ChildWords(list, I) ==
    IF I = {} THEN 0
    ELSE LET i == CHOOSE x \in I : TRUE
         IN  edge_words_total(list.list[i]) + ChildWords(list, I \ {i})

\* The words that the lists at the paths P of `root` hold themselves.
RECURSIVE OwnWords(_, _)
OwnWords(root, P) ==
    IF P = {} THEN 0
    ELSE LET q == CHOOSE x \in P : TRUE
         IN  LenOrOne(NodeAt(root, q)) + OwnWords(root, P \ {q})

\* The recurrence of edge_words_total holds at every list of the
\* initializer of the definition.
EdgeWordsRecurrence ==
    \A q \in ListPaths(extItem.init) :
        LET l == NodeAt(extItem.init, q) IN
        /\ nested_base_len(l) = LenOrOne(l)
        /\ edge_words_total(l) =
              nested_base_len(l)
              + ChildWords(l, {i \in 1..Len(l.list) : l.list[i].kind = "INIT_LIST"})

\* The backing array holds the root elements and every nested list, and
\* __b_init assigns inside it.
ArrayHoldsInitializer ==
    /\ extArray.len >= Len(extItem.init.list)
                       + OwnWords(extItem.init, ListPaths(extItem.init) \ {<<>>})
    /\ extPc = "done" =>
          /\ \A i \in extWrites : i >= 0 /\ i < extArray.len
          /\ extCursor <= extArray.len

\* C10 as stated: the recurrence holds at every list of an initializer, and
\* the length of the backing array declared for a blob or vector is its
\* outer length plus edge_tail_words_top(root), which is at least the number
\* of words the initializer and its nested lists occupy.
C10_ArrayLenIsOuterPlusTail ==
    /\ EdgeWordsRecurrence
    /\ extArray.kind # "none" =>
          /\ extArray.len = extArray.outer + edge_tail_words_top(extItem.init)
          /\ ArrayHoldsInitializer

\* C10, amended: as C10, but the array is one word long when the outer
\* length plus edge_tail_words_top(root) is 0.
C10_ArrayLenIsOuterPlusTailOrOne ==
    /\ EdgeWordsRecurrence
    /\ extArray.kind # "none" =>
          /\ extArray.len =
                IF extArray.outer + edge_tail_words_top(extItem.init) = 0
                THEN 1
                ELSE extArray.outer + edge_tail_words_top(extItem.init)
          /\ extArray.kind = "blob" => extArray.outer = Len(extItem.init.list)
          /\ extArray.kind = "store" => extArray.outer >= Len(extItem.init.list)
          /\ ArrayHoldsInitializer

\* A vector `v[2]` whose initializer has a list inside a list was given its
\* array and __b_init has been written.
C10_Witness ==
    /\ extPc = "done"
    /\ extArray.kind = "store"
    /\ extItem.bound = ExprNum(2)
    /\ \E q \in ListPaths(extItem.init) : Len(q) = 2
    /\ extArray.len = 3 + edge_tail_words_top(extItem.init)
    /\ extWrites # {}

-----------------------------------------------------------------------------
(***************************************************************************)
(* Properties of the name mangling.                                        *)
(***************************************************************************)
\* C11: within one compilation unit no two B names have the same C
\* identifier in the map, and the identifier written for a name is the one
\* the name got at its first lookup.
C11_MangledNamesInjectiveAndStable ==
    /\ \A i, j \in 1..Len(name_map) :
          name_map[i].mangled = name_map[j].mangled => i = j
    /\ mnOut.role = "name" => mnOut.ident = mnFirst[mnOut.name]

\* The image of a B name under the current map.
MangledImage(name) ==
    {name_map[i].mangled : i \in {k \in 1..Len(name_map) : name_map[k].original = name}}

\* C12: every identifier the emitter writes for a B name is the image of
\* that name under the current map, so a name that contains '.' or is a C
\* keyword is never written as it is.
C12_EmittedIdentifierIsMangledImage ==
    mnOut.role # "none" =>
        /\ mnOut.ident \in MangledImage(mnOut.name)
        /\ (is_c_keyword(mnOut.name) \/ \E i \in 1..Len(mnOut.name) : mnOut.name[i] = ".")
              => mnOut.ident # mnOut.name

-----------------------------------------------------------------------------
(***************************************************************************)
(* Properties of the string pool.                                          *)
(***************************************************************************)
\* Byte k (from 0) of an emitted array.
ByteOfArray(arr, k) == arr[(k \div W) + 1][(k % W) + 1]

\* C13: for every string literal of n bytes (after escape processing, a NUL
\* from *0 included) the entry its reference names is defined by the pool,
\* has ceil((n+1)/W) words, holds byte k of the literal at byte k mod W of
\* word k div W, has 004 at byte n and 0 after it; equal literals have the
\* same entry, and no entry is emitted twice.
C13_StringPoolLayout ==
    strPc = "done" =>
        /\ \A k \in 1..Len(strNodes) :
              LET lit == strNodes[k].lit
                  n   == Len(lit)
                  id  == strRefs[k]
              IN  /\ id + 1 \in 1..Len(strArrays)
                  /\ LET arr == strArrays[id + 1]
                     IN  /\ Len(arr) = (n + 1 + W - 1) \div W
                         /\ \A b \in 0..(Len(arr) * W - 1) :
                               ByteOfArray(arr, b) =
                                   IF b < n THEN lit[b + 1]
                                   ELSE IF b = n THEN 4 ELSE 0
        /\ \A j, k \in 1..Len(strNodes) :
              strNodes[j].lit = strNodes[k].lit => strRefs[j] = strRefs[k]
        /\ \A i, j \in 1..Len(strArrays) : strArrays[i] = strArrays[j] => i = j

-----------------------------------------------------------------------------
(***************************************************************************)
(* Properties of the emission of ++, -- and the assignment operators.      *)
(***************************************************************************)
\* The node is a prefix or postfix ++/-- or a compound assignment =<op>
\* whose target is an index or dereference expression.
RmwOnComplexTarget ==
    /\ rmwExpr # NoExpr
    /\ \/ rmwExpr.kind = "EX_UNARY" /\ rmwExpr.op \in IncDecOps
       \/ rmwExpr.kind = "EX_POST"
       \/ rmwExpr.kind = "EX_ASSIGN" /\ rmwExpr.op \in CompoundOps
    /\ rmwExpr.args[1].kind = "EX_INDEX"
          \/ (rmwExpr.args[1].kind = "EX_UNARY" /\ rmwExpr.args[1].op = "TK_STAR")

\* C14: for ++, -- and every =<op> on an index or dereference target the
\* emitted C holds the target once, as the operand of & in the first
\* argument of a b_* helper, and one execution evaluates the target once.
C14_ComplexTargetEmittedOnce ==
    (RmwOnComplexTarget /\ rmwPc \in {"run", "done"}) =>
        /\ Occurrences(rmwOut, rmwExpr.args[1]) = 1
        /\ rmwOut[1] = Text("b_")
        /\ rmwOut[3] = Text("(&(")
        /\ rmwOut[4] = Child(rmwExpr.args[1])
        /\ rmwPc = "done" => rmwEvals = 1

\* v[i++] =+ y was emitted at the host width and has run.
C14_Witness ==
    /\ rmwPc = "done"
    /\ current_word_bits = 0
    /\ rmwExpr = ExprAssign("TK_PLUSEQ",
                            ExprIndex(ExprVar("v"), ExprPost("TK_PLUSPLUS", ExprVar("i"))),
                            ExprVar("y"))
    /\ rmwEvals = 1

\* C15: an assignment operator, a prefix or postfix ++/-- or & applied to
\* an operand that is not a variable, an index expression or a unary
\* dereference aborts the compilation, and the diagnostic carries the code
\* lv.
C15_NonLvalueReportsLv ==
    (rmwTried # NoTry /\ ~is_lvalue(rmwTried.operand)) =>
        /\ rmwPc = "done"
        /\ rmwExpr = NoExpr
        /\ rmwStatus = "lv"

-----------------------------------------------------------------------------
(***************************************************************************)
(* Properties of the statement nesting.                                    *)
(***************************************************************************)
\* C16: case and default are accepted exactly when a switch encloses them
\* (through any blocks, ifs, whiles and labels) and are a fatal error
\* otherwise; switch_depth is never negative, and it is 0 whenever the
\* parser is between two top-level definitions.
C16_CaseOnlyInsideSwitch ==
    /\ nestDepth >= 0
    /\ nestStack = <<>> => nestDepth = 0
    /\ nestLast.tok # "none" =>
          /\ nestLast.accepted <=> nestLast.in_switch
          /\ ~nestLast.accepted => nestStatus = "dief"
          /\ nestLast.accepted => nestStatus = "running"

\* A case was accepted below a block inside a switch inside a while, and
\* the parser is now between the first and the second definition.
C16_Witness ==
    /\ nestLast.accepted
    /\ nestDefs = 1
    /\ nestStack = <<>>
    /\ nestDepth = 0


\* Position (line, column) a is not after position b.
PosLeq(a, b) == a.line < b.line \/ (a.line = b.line /\ a.col <= b.col)

AddedAfterMark == {c \in ChunkIds : arAtMark.chunks[c].state = "none" /\ arChunks[c].state # "none"}

\* C18: m = arena_mark() followed by any number of arena_alloc calls and
\* then arena_rewind(m) restores the arena to its state at the mark: the
\* chunk list ends at the marked chunk, every chunk added after the mark
\* has been freed exactly once, the marked chunk's used offset is what it
\* was at the mark, and a mark taken on an empty arena rewinds to an empty
\* arena; and at all times used <= cap in every chunk.
C18_RewindRestoresMark ==
    /\ \A c \in ChunkIds : arChunks[c].state = "live" => arChunks[c].used <= arChunks[c].cap
    /\ \A c \in ChunkIds : arChunks[c].frees <= 1
    /\ arLast = "arena_rewind" =>
         /\ arFirst = arAtMark.first
         /\ arCurrent = arAtMark.current
         /\ ChunkList(arChunks, arFirst) = ChunkList(arAtMark.chunks, arAtMark.first)
         /\ arCurrent # 0 => arChunks[arCurrent].next = 0
         /\ \A c \in ChunkIds \ AddedAfterMark : arChunks[c] = arAtMark.chunks[c]
         /\ \A c \in AddedAfterMark :
                arChunks[c].state = "freed" /\ arChunks[c].frees = 1

\* A rewind to a mark in the middle of a chunk has freed a chunk that was
\* added after the mark.
C18_Witness ==
    /\ arLast = "arena_rewind"
    /\ arCurrent # 0
    /\ arChunks[arCurrent].used > 0
    /\ AddedAfterMark # {}


\* The downstream C compiler ran and did not end with status 0.
GccFailed == drGcc # NotRun /\ ~(drGcc.exited /\ drGcc.status = 0)

\* C19: at every exit of the driver, a temporary C file that the driver
\* created still exists only if the keep flag (--keep-c or --emit-c) was
\* given or the downstream C compiler failed; so none is left after a
\* successful run without the keep flag, nor after a fatal lexing, parsing
\* or semantic error in an input file of a multi-file compile.
C19_TempFilesOnlyKeptOrAfterGccFailure ==
    drPc = "exited" =>
        \A f \in drDisk : f.temp => (drKeep # "none" \/ GccFailed)

\* C20: when the downstream C compiler terminates with a non-zero exit
\* status c, the exit status of the driver is c.
C20_DriverExitsWithGccStatus ==
    (drPc = "exited" /\ drGcc.exited /\ drGcc.status > 0) =>
        drExit = drGcc.status


\* An input file that compile_b_to_c reached has a fatal error.
CompileFailed ==
    \E i \in 1..Len(drInputs) :
        /\ drInputs[i] # "ok"
        /\ \A j \in 1..(i - 1) : drInputs[j] = "ok"

\* The exit status of a finished run that had input files and well-formed
\* options: 1 after an error of the lexer, the parser, the semantic check
\* or the downstream compiler, 0 otherwise.
ExitStatusOfCompile ==
    (drInputs # <<>> /\ drOptions = "ok") =>
        drExit = IF CompileFailed \/ GccFailed THEN 1 ELSE 0

\* C21, as stated: the driver exits with status 2 on every invocation that
\* names no input file, whatever other options are present, with 0 on
\* every run that completes without error, and with 1 on every lexing,
\* parsing, semantic or downstream-compiler error.
C21_ExitStatusWhateverOptions ==
    drPc = "exited" =>
        /\ drInputs = <<>> => drExit = 2
        /\ ExitStatusOfCompile

\* C21, amended: the driver exits with status 2 on every invocation that
\* names no input file and whose options are well formed; a command line
\* with an unknown option, or with -o, -l or -X as its last argument,
\* exits with status 1 whether or not it names an input file; the rest as
\* stated.
C21_ExitStatusForWellFormedOptions ==
    drPc = "exited" =>
        /\ (drInputs = <<>> /\ drOptions = "ok") => drExit = 2
        /\ drOptions # "ok" => drExit = 1
        /\ ExitStatusOfCompile

\* A command line with --keep-c or --emit-c and no input file has exited
\* with status 2.
C21_Witness ==
    /\ drPc = "exited"
    /\ drOptions = "ok"
    /\ drKeep # "none"
    /\ drInputs = <<>>
    /\ drExit = 2


\* The node of statement s at the end of a path.
RECURSIVE StmtAt(_, _)
StmtAt(s, path) ==
    IF path = <<>> THEN s ELSE StmtAt(s.kids[Head(path)], Tail(path))

\* The paths of all the nodes of statement s.
RECURSIVE PathsOf(_, _)
PathsOf(s, path) ==
    {path} \cup UNION {PathsOf(s.kids[k], Append(path, k)) : k \in 1..Len(s.kids)}

IsPrefix(p, q) == Len(p) <= Len(q) /\ SubSeq(q, 1, Len(p)) = p

\* Path p comes before path q in the source.
RECURSIVE Before(_, _)
Before(p, q) ==
    IF p = <<>> THEN q # <<>>
    ELSE IF q = <<>> THEN FALSE
    ELSE Head(p) < Head(q) \/ (Head(p) = Head(q) /\ Before(Tail(p), Tail(q)))

\* The case and default nodes that belong to the switch at path sw: those
\* below it with no other switch in between.
CaseNodesOf(root, sw) ==
    {q \in PathsOf(root, <<>>) :
        /\ StmtAt(root, q).kind = "ST_CASE"
        /\ IsPrefix(sw, q)
        /\ \A n \in (Len(sw) + 1)..(Len(q) - 1) :
               StmtAt(root, SubSeq(q, 1, n)).kind # "ST_SWITCH"}

\* How often an item is written.
Written(item) == Cardinality({k \in 1..Len(stOut) : stOut[k] = item})

\* C22: for every switch, the labels __bsw<sid>_case<i> correspond one to
\* one to the case and default nodes reachable from its body without
\* entering a nested switch; each of them is defined exactly once in the
\* emitted body and is the target of exactly one dispatch jump, the jumps
\* being in source order; the cases of a nested switch carry only the
\* nested switch's id; and no two switches of one compilation share an id.
C22_CaseLabelsMatchCaseNodes ==
    stPc = "emitted" =>
        /\ \A k \in 1..Len(stSwitches) :
             LET sw == stSwitches[k]
             IN  /\ {sw.cases[i] : i \in 1..Len(sw.cases)} = CaseNodesOf(stBody, sw.at)
                 /\ \A i, j \in 1..Len(sw.cases) :
                        i < j => Before(sw.cases[i], sw.cases[j])
                 /\ \A i \in 1..Len(sw.cases) :
                        /\ Written(LabelDef(CaseLabel(sw.sid, i - 1))) = 1
                        /\ Written(DispatchJump(CaseLabel(sw.sid, i - 1))) = 1
                 /\ \A n \in 1..Len(stOut) :
                        (stOut[n].text.kind = "case" /\ stOut[n].text.sid = sw.sid)
                            => stOut[n].text.idx < Len(sw.cases)
                 /\ sw.sid \notin stUsed
                 /\ \A m \in 1..Len(stSwitches) : m # k => stSwitches[m].sid # sw.sid
        /\ \A n \in 1..Len(stOut) :
               stOut[n].text.kind = "case" =>
                   \E k \in 1..Len(stSwitches) : stSwitches[k].sid = stOut[n].text.sid

-----------------------------------------------------------------------------
(***************************************************************************)
(* Properties of the initialization of nested lists.                       *)
(***************************************************************************)

\* The array indices of the words of its own that a nested list was given.
OwnRegion(r) == r.start .. (r.start + r.len - 1)

\* The array indices of the elements of the list a subvector holds.
ElemSlots(r) == r.start .. (r.start + r.elems - 1)

\* C23: when emit_edge_list_init has run on the initializer of a blob or
\* vector, every index it assigns is below the outer length plus the tail
\* words; every nested list has a subvector of its own, of max(length, 1)
\* words at or after the outer length; the subvectors are pairwise disjoint
\* and lie back to back, filling the tail; the slot that holds the address
\* of the first word of a subvector is an assigned element slot of the root
\* or of another subvector, and no two slots hold the same address; and the
\* cursor returned is the outer length plus edge_tail_words_top(root).
C23_NestedListsGetDisjointTailRegions ==
    (extPc = "done" /\ extArray.kind # "none" /\ extItem.init.kind = "INIT_LIST") =>
        LET root  == extItem.init
            outer == extArray.outer
            tail  == edge_tail_words_top(root)
        IN  /\ \A i \in extWrites : i >= 0 /\ i < outer + tail
            /\ outer + tail <= extArray.len
            /\ Cardinality(extRegions) = Cardinality(ListPaths(root) \ {<<>>})
            /\ \A r \in extRegions :
                  /\ r.start >= outer
                  /\ r.len = (IF r.elems > 1 THEN r.elems ELSE 1)
                  /\ r.start + r.len <= outer + tail
                  /\ r.slot \in extWrites
                  /\ \/ r.slot \in 0 .. (Len(root.list) - 1)
                     \/ \E p \in extRegions \ {r} : r.slot \in ElemSlots(p)
            /\ \A r1, r2 \in extRegions :
                  r1 # r2 => /\ OwnRegion(r1) \cap OwnRegion(r2) = {}
                             /\ r1.slot # r2.slot
                             /\ r1.start # r2.start
            /\ UNION {OwnRegion(r) : r \in extRegions} = outer .. (outer + tail - 1)
            /\ \A i \in extWrites :
                  \/ i \in 0 .. (Len(root.list) - 1)
                  \/ \E p \in extRegions : i \in ElemSlots(p)
            /\ extCursor = outer + tail

\* __b_init was written for a vector `v[2]` whose initializer holds a list
\* that holds a list and an element, and an empty list after it.
C23_Witness ==
    /\ extPc = "done"
    /\ extArray.kind = "store"
    /\ extItem.bound = ExprNum(2)
    /\ extItem.init = InitList(<<InitList(<<InitList(<<>>), InitExpr("EX_NUM")>>),
                                 InitList(<<>>)>>)
    /\ Cardinality(extRegions) = 3
    /\ extCursor = 3 + 4

-----------------------------------------------------------------------------
(***************************************************************************)
(* Properties of the one-token lookahead.                                  *)
(***************************************************************************)

\* C24: after peek_next_kind has returned, the Lexer of the parser (position,
\* line, column), the current token, g_compilation_arena, the allocations
\* made in the arena and the live malloc'd lexemes are what they were before
\* the call; and the kind returned is the kind of the token that the next
\* call of next makes the current token.
C24_PeekLeavesParserAndArenaAlone ==
    /\ [](pkLast.returned =>
             /\ pkL = pkLast.L
             /\ pkCur = pkLast.cur
             /\ g_compilation_arena = pkLast.arena_ptr
             /\ g_compilation_arena = "arena"
             /\ pkArena = pkLast.arena
             /\ pkHeap = pkLast.heap
             /\ pkLast.kind = lx_next(pkSrc, pkL).tok.kind)
    /\ [][(pkLast.returned /\ pkL' # pkL) =>
              /\ pkStatus' \in {"running", "eof"}
              /\ pkCur'.kind = pkLast.kind]_vars

\* peek_next_kind has returned TK_STR while the current token is an
\* identifier whose lexeme is in the arena, and a string of two characters
\* follows.
C24_Witness ==
    /\ pkLast.returned
    /\ pkLast.kind = "TK_STR"
    /\ pkCur.kind = "TK_ID"
    /\ pkCur.lexeme = 2
    /\ pkArena = <<2>>
    /\ pkHeap = 0
    /\ pkL.i = 1
    /\ pkSrc = <<"a", DQ, "a", DQ>>

-----------------------------------------------------------------------------
(***************************************************************************)
(* Properties of the arena marks.                                          *)
(***************************************************************************)

\* C25 as stated: after any sequence of arena_alloc, arena_mark and
\* arena_rewind, with no arena_reset and no arena_free, a call of
\* arena_rewind with any mark returned earlier reads, writes and frees no
\* chunk that has been freed before.
C25_RewindNeverTouchesFreedChunk ==
    /\ mkTouched = {}
    /\ mkStatus = "running"
    /\ \A c \in ChunkIds : mkChunks[c].frees <= 1

\* C26 as stated: for every assignment operator, the relational
\* assignments among them, one execution of the emitted C evaluates the
\* left operand, and so each of its subexpressions, exactly once, also when
\* the left operand is an index or dereference with a side effect inside.
C26_AssignmentEvaluatesTargetOnce ==
    (rmwPc = "done" /\ rmwExpr.kind = "EX_ASSIGN" /\ rmwExpr.op \in AssignOps) =>
        /\ Occurrences(rmwOut, rmwExpr.args[1]) = 1
        /\ rmwEvals = 1

-----------------------------------------------------------------------------
(***************************************************************************)
(* Properties of the compound assignment helpers.                          *)
(***************************************************************************)

\* C27 as stated: for every compound assignment operator and all operand
\* values, the divisor not zero, the word that b_<op>_assign(&x, v) stores
\* is the value of the lowering of `x <op> v` in the same word mode: of the
\* C operator on signed words at the host width, of the W* macro in the
\* wrapping mode.  Operands on which either side has undefined behaviour
\* are left out.
C27_HelperEqualsBinaryLowering ==
    (wdPc = "done" /\ ~wdHelper.undef /\ ~wdBinary.undef) =>
        wdHelper.val = wdBinary.val

-----------------------------------------------------------------------------
(***************************************************************************)
(* Properties of the implicit statics and the literals.                    *)
(***************************************************************************)

\* C28 as stated: when sem_check_program has ended, no name is both in
\* implicit_statics and in extern_names, whatever the order of the
\* reference and the extrn statement and whichever functions hold them.
C28_ImplicitStaticsDisjointFromExtrn ==
    semStatus = "ok" =>
        \A k \in 1..Len(implicit_statics) : implicit_statics[k] \notin extern_names

\* C29 as stated: the check of a numeric or string literal changes neither
\* implicit_statics nor the scopes nor any other part of the SemState, and
\* does not end the compilation.
C29_LiteralCheckHasNoEffect ==
    [][(semPc = "infunc" /\ cur' = Node("EX_NUM", "") /\ nNodes' = nNodes + 1) =>
          /\ semStatus' = semStatus
          /\ semPc' = semPc
          /\ implicit_statics' = implicit_statics
          /\ scopes' = scopes
          /\ extern_names' = extern_names
          /\ function_names' = function_names]_vars

-----------------------------------------------------------------------------
(***************************************************************************)
(* Properties of the C strings of a call.                                  *)
(***************************************************************************)

\* C30 as stated: while the arguments of one call are converted and until
\* the call is made, every C string __b_cstr has returned for the call is
\* where it was and holds the text of its argument, however many arguments
\* are wrapped.
C30_CstrCopiesIntactUntilCall ==
    csPc = "args" => \A i \in 1..Len(csArgs) : Intact(i)

=============================================================================
